---- MODULE Spec2Model ----
(***************************************************************************)
(* Connector subsystem of Straai: the advisory-lock helper                 *)
(* (server/src/lib/schedulerLock.ts), the OAuth state machine and the      *)
(* scheduled sync of ConnectorManager, and the connectors' sync().         *)
(***************************************************************************)
EXTENDS Integers, Sequences, FiniteSets, TLC

(***************************************************************************)
(* Bounds of the model.                                                    *)
(***************************************************************************)
NumInstances == 2        \* process instances sharing the database
PoolSize == 2            \* connections in one PrismaClient's pool
SlotsPerInstance == 2    \* withAdvisoryLock calls in flight per instance
MaxHolds == 2            \* holds of one advisory lock a session may stack
NumUsers == 1            \* users connecting accounts
NumAccounts == 1         \* provider accounts a user may authorize
NumCallers == 2          \* handleOAuthCallback requests in flight
MaxStates == 2           \* OAuth state tokens generated in one behaviour
MaxTokens == 2           \* access tokens the providers issue in one behaviour
MaxTime == 20            \* minutes of wall-clock time in one behaviour
MaxTicks == 3            \* hours at which the cron fires in one behaviour
MaxSyncs == 2            \* sync() invocations in one behaviour
MaxSends == 3            \* times one request is sent before the model stops following it
MaxPages == 2            \* pages a paginated query may go on after the first

Instances == 1..NumInstances
Conns == 1..PoolSize
\* A database session is one pooled connection of one instance's PrismaClient.
Sessions == Instances \X Conns
Calls == Instances \X (1..SlotsPerInstance)

InstOf(c) == c[1]

\* The job name ConnectorManager passes to withAdvisoryLock. Advisory locks of
\* different keys do not interact, so the model follows the lock of one job.
JobName == "connectors_scheduled_sync"

\* hashtext($1)::int4 of the job name: the integer key of the advisory lock.
hashtext(name) == IF name = JobName THEN 1 ELSE 0

\* Outcome of one $queryRawUnsafe round trip:
\*   "ok"    the statement ran and its row came back,
\*   "error" the statement never ran (the promise rejects),
\*   "lost"  the statement ran but the promise rejects (reply lost).
QueryOutcomes == {"ok", "error", "lost"}

VARIABLES
  advLocks,     \* [Sessions -> Nat]: holds of the job's advisory lock per session
  pc,           \* [Calls -> {"idle", "fn", "finally"}]: position in withAdvisoryLock
  fnOutcome,    \* [Calls -> {"none", "result", "threw"}]: how fn ended
  lastStep      \* the latest step of the lock helper: operation, query outcome,
                \* what fn produced and what the helper returned

lockVars == <<advLocks, pc, fnOutcome, lastStep>>


(***************************************************************************)
(* Postgres advisory locks (session level, as used by schedulerLock.ts).   *)
(***************************************************************************)

\* pg_try_advisory_lock(key, 0) on session s: granted unless another session
\* holds the key; a session that already holds it is granted again.
PgLockGranted(locks, s) ==
  \A t \in Sessions : t # s => locks[t] = 0

PgTryAdvisoryLock(locks, s) ==
  IF PgLockGranted(locks, s)
    THEN [locks EXCEPT ![s] = @ + 1]
    ELSE locks

\* pg_advisory_unlock(key, 0) on session s: drops one hold of s, and does
\* nothing (returns false with a warning) when s holds none.
PgAdvisoryUnlock(locks, s) ==
  IF locks[s] > 0
    THEN [locks EXCEPT ![s] = @ - 1]
    ELSE locks

\* Whether the statement of a query with outcome q reached the server.
QueryRan(q) == q \in {"ok", "lost"}

(***************************************************************************)
(* schedulerLock.ts                                                        *)
(***************************************************************************)

TryAcquireLockCatchTrue(q, granted) ==
  IF q = "ok" THEN granted ELSE TRUE

\* tryAcquireLock: !!rows?.[0]?.ok, and false when the query rejects.
TryAcquireLock(q, granted) ==
  IF q = "ok" THEN granted ELSE FALSE

ReleaseLockRethrows(q, fnres) ==
  IF q = "ok" THEN fnres ELSE "threw"

\* What withAdvisoryLock hands back after `finally { await releaseLock() }`:
\* releaseLock ignores a rejected query, so it is what fn produced.
WithLockReturn(q, fnres) == fnres

\* The slot a new call of an instance occupies: its lowest idle one.
FreeSlot(c) ==
  /\ pc[c] = "idle"
  /\ \A d \in Calls : (InstOf(d) = InstOf(c) /\ d[2] < c[2]) => pc[d] # "idle"

\* withAdvisoryLock up to and including `if (!acquired) return undefined`:
\* the pool serves the query of call c on connection k with outcome q.
AcquireStep(c, k, q) ==
  LET s == <<InstOf(c), k>>
      granted == PgLockGranted(advLocks, s)
      acquired == TryAcquireLock(q, granted)
  IN  /\ FreeSlot(c)
      /\ advLocks[s] < MaxHolds
      /\ advLocks' = IF QueryRan(q) THEN PgTryAdvisoryLock(advLocks, s) ELSE advLocks
      /\ fnOutcome' = fnOutcome
      /\ pc' = [pc EXCEPT ![c] = IF acquired THEN "fn" ELSE "idle"]
      /\ lastStep' = [op |-> "acquire", query |-> q, fnres |-> "none",
                      value |-> IF acquired THEN "acquired" ELSE "undefined"]

\* fn ran to its end: `const result = await fn()` returned (threw = FALSE)
\* or raised (threw = TRUE); control enters the finally block.
FnEndStep(c, threw) ==
  /\ pc[c] = "fn"
  /\ pc' = [pc EXCEPT ![c] = "finally"]
  /\ fnOutcome' = [fnOutcome EXCEPT ![c] = IF threw THEN "threw" ELSE "result"]
  /\ lastStep' = [op |-> "fn", query |-> "ok", fnres |-> fnOutcome'[c], value |-> "none"]
  /\ UNCHANGED advLocks

\* finally { await releaseLock(lockKey) }: the unlock query is served on
\* connection k with outcome q; then the result of fn is returned or its
\* exception propagates.
ReleaseStep(c, k, q) ==
  LET s == <<InstOf(c), k>>
  IN  /\ pc[c] = "finally"
      /\ advLocks' = IF QueryRan(q) THEN PgAdvisoryUnlock(advLocks, s) ELSE advLocks
      /\ pc' = [pc EXCEPT ![c] = "idle"]
      /\ fnOutcome' = [fnOutcome EXCEPT ![c] = "none"]
      /\ lastStep' = [op |-> "release", query |-> q, fnres |-> fnOutcome[c],
                      value |-> WithLockReturn(q, fnOutcome[c])]

(***************************************************************************)
(* Specification of the lock helper alone: any instance may call           *)
(* withAdvisoryLock(JobName, fn) at any time, fn being an arbitrary task.  *)
(***************************************************************************)

NoStep == [op |-> "none", query |-> "ok", fnres |-> "none", value |-> "none"]

InitLock ==
  /\ advLocks = [s \in Sessions |-> 0]
  /\ pc = [c \in Calls |-> "idle"]
  /\ fnOutcome = [c \in Calls |-> "none"]
  /\ lastStep = NoStep

\* The store answers every query.
WithAdvisoryLockCall == \E c \in Calls, k \in Conns : AcquireStep(c, k, "ok")
FnReturns == \E c \in Calls : FnEndStep(c, FALSE)
FnThrows == \E c \in Calls : FnEndStep(c, TRUE)
ReleaseLock == \E c \in Calls, k \in Conns : ReleaseStep(c, k, "ok")


\* The store may fail any query of the helper.
AcquireQueryFails == \E c \in Calls, k \in Conns, q \in {"error", "lost"} : AcquireStep(c, k, q)
ReleaseQueryFails == \E c \in Calls, k \in Conns, q \in {"error", "lost"} : ReleaseStep(c, k, q)


(***************************************************************************)
(* ConnectorManager: OAuth state machine and Integration records.          *)
(***************************************************************************)

Users == 1..NumUsers
Accounts == 1..NumAccounts
Callers == 1..NumCallers
\* connectorFactories: the registered providers.
Providers == {"shopify", "klaviyo"}

\* 10 * 60 * 1000 ms, in minutes.
OAuthStateTtl == 10
\* A null timestamp column / an undefined Date.
NoTime == 0 - 1
\* A null token column / an undefined token.
NoToken == <<>>
\* process.env.ENCRYPTION_KEY of the deployment.
EncryptionKey == "ENCRYPTION_KEY"

\* TokenManager.encrypt / decrypt: the envelope carries the plaintext under
\* the key; only the same key opens it.
Encrypt(key, text) == <<key, text>>
Decrypt(key, envelope) == IF envelope[1] = key THEN envelope[2] ELSE "Failed to decrypt token"

VARIABLES
  now,           \* wall-clock time in minutes
  oauthStates,   \* OAuthState table: state token -> [userId, provider, expiresAt]
  nextState,     \* number of state tokens generateState has produced
  integrations,  \* Integration table: sequence of rows, the index being the id
  nextToken,     \* number of access tokens the providers have issued
  cb,            \* [Callers -> record]: the handleOAuthCallback requests
  upserts,       \* per (userId, provider, accountId): token data of the latest callback upsert
  consumed,      \* the states of the callbacks that returned an Integration
  lastDone,      \* per (userId, provider, accountId): token data of the callback that returned last
  rejected       \* why validateOAuthState refused the latest refused callback

oauthVars == <<now, oauthStates, nextState, integrations, nextToken, cb, upserts,
               consumed, lastDone, rejected>>

VARIABLES
  syncLogs,      \* SyncLog table: set of [integrationId, dataType, status, run]
  fired,         \* [Instances -> Nat]: hourly cron firings so far on each instance
  batch,         \* [Calls -> [stage, todo, tick]]: the scheduled batch a call is running
  due,           \* history: the integrations that were eligible when the hour began
  syncCalls,     \* history: <<instance, tick, id>> of the batch's syncIntegration calls
  sync,          \* the ShopifyConnector.sync() invocation in progress, with its history
  si,            \* [Slots -> [pc, did]]: the syncIntegration calls, with what each has done
  us,            \* the syncUserIntegrations call: [pc, started]
  http,          \* the httpClient request in progress: [pc, id, skip, log]
  pg,            \* the paginated routine in progress: [pc, provider, total, times, clock, status]
  vault,         \* the TokenManager objects of the process and the envelope they handle
  rt,            \* the integrations routes: updatedAt of the rows, the last answers
  conn,          \* the connect route: [pc, env, resp]
  wm,            \* SyncLog rows with completedAt, the clock, the last watermark read
  pk,            \* OAuth state rows with their verifier, the URLs returned, the last exchange
  cad            \* one integration over the hours: [hour, stage, queryAt, row, hist]

tickVars == <<fired, batch, due, syncCalls>>

mgrVars == <<si, us>>

restVars == <<pg, vault, rt, conn, wm, pk, cad>>

allVars == <<lockVars, oauthVars, syncLogs, tickVars, sync, mgrVars, http, restVars>>

IdleSync == [pc |-> "idle", run |-> 0, page |-> 0, results |-> <<>>,
             threw |-> {}, dbFailed |-> FALSE, wrote |-> {}]

NoBatch == [stage |-> "off", todo |-> <<>>, found |-> {}, tick |-> 0]

IdleCb == [pc |-> "idle", provider |-> "shopify", state |-> 0, userId |-> 0,
           stateProvider |-> "shopify",
           late |-> FALSE, seen |-> "valid",
           access |-> 0, refresh |-> 0, expiresAt |-> NoTime, accountId |-> 0]

\* What the OAuthState table holds for token s at time t.
StateRow(states, s, t) ==
  IF s \notin DOMAIN states THEN "missing"
  ELSE IF states[s].expiresAt < t THEN "expired"
  ELSE "valid"

RowKey(r) == <<r.userId, r.provider, r.accountId>>

\* Ids of the rows with unique key <<u, p, a>>.
RowsWithKey(rows, k) == {i \in DOMAIN rows : RowKey(rows[i]) = k}

LiveRowsWithKey(rows, k) == {i \in RowsWithKey(rows, k) : rows[i].deletedAt = NoTime}

\* storeOAuthState: upsert of the row keyed by the state token.
StoreOAuthState(states, s, u, p, t) ==
  [x \in DOMAIN states \cup {s} |->
     IF x = s THEN [userId |-> u, provider |-> p, expiresAt |-> t + OAuthStateTtl]
              ELSE states[x]]

ValidateOAuthStateNoExpiry(states, s, t) ==
  s \in DOMAIN states

\* validateOAuthState: the row exists and `expiresAt < new Date()` is false.
ValidateOAuthState(states, s, t) ==
  /\ s \in DOMAIN states
  /\ ~(states[s].expiresAt < t)

CleanupOAuthStateNoop(states, s) == states

\* cleanupOAuthState: delete the row, ignoring a missing row.
CleanupOAuthState(states, s) ==
  [x \in DOMAIN states \ {s} |-> states[x]]

UpdatedRowKeepsTokens(row, d) ==
  [row EXCEPT !.status = "connected", !.deletedAt = NoTime]

\* prisma.integration.upsert, update branch: an undefined expiresAt leaves
\* the column as it is.
UpdatedRow(row, d) ==
  [row EXCEPT !.accessToken = Encrypt(EncryptionKey, d.access),
              !.refreshToken = IF d.refresh = 0 THEN NoToken ELSE Encrypt(EncryptionKey, d.refresh),
              !.expiresAt = IF d.expiresAt = NoTime THEN @ ELSE d.expiresAt,
              !.status = "connected",
              !.deletedAt = NoTime]

\* prisma.integration.upsert, create branch.
CreatedRow(k, d) ==
  [userId |-> k[1], provider |-> k[2], accountId |-> k[3],
   accessToken |-> Encrypt(EncryptionKey, d.access),
   refreshToken |-> IF d.refresh = 0 THEN NoToken ELSE Encrypt(EncryptionKey, d.refresh),
   expiresAt |-> d.expiresAt,
   status |-> "connected",
   lastSyncAt |-> NoTime,
   deletedAt |-> NoTime]

UpsertIntegrationAlwaysCreates(rows, k, d) ==
  Append(rows, CreatedRow(k, d))

\* prisma.integration.upsert keyed by userId_provider_accountId.
UpsertIntegration(rows, k, d) ==
  IF RowsWithKey(rows, k) # {}
    THEN [i \in DOMAIN rows |-> IF RowKey(rows[i]) = k THEN UpdatedRow(rows[i], d) ELSE rows[i]]
    ELSE Append(rows, CreatedRow(k, d))

\* initiateOAuth(provider, userId): a fresh random state token is stored.
InitiateOAuth(u, p) ==
  /\ nextState < MaxStates
  /\ nextState' = nextState + 1
  /\ oauthStates' = StoreOAuthState(oauthStates, nextState + 1, u, p, now)
  /\ UNCHANGED <<now, integrations, nextToken, cb, upserts, consumed, lastDone, rejected, syncLogs>>

\* handleOAuthCallback(provider, code, state) up to the token exchange:
\* validateOAuthState, and 'Invalid OAuth state' when it returns null.
CallbackValidate(c, p, s) ==
  /\ cb[c].pc = "idle"
  /\ LET valid == ValidateOAuthState(oauthStates, s, now)
         req == [IdleCb EXCEPT !.provider = p, !.state = s,
                               !.late = s \in consumed,
                               !.seen = StateRow(oauthStates, s, now)]
     IN  IF valid
           THEN /\ cb' = [cb EXCEPT ![c] = [req EXCEPT !.pc = "exchange",
                                                       !.userId = oauthStates[s].userId,
                                                       !.stateProvider = oauthStates[s].provider]]
                /\ rejected' = rejected
           ELSE /\ cb' = cb
                /\ rejected' = [seen |-> req.seen, late |-> req.late]
  /\ UNCHANGED <<now, oauthStates, nextState, integrations, nextToken, upserts, consumed, lastDone, syncLogs>>

\* The expires_in of Klaviyo's token response, in minutes.
ExpiresIn == 10

\* The expiry a provider's token response carries: Shopify tokens do not
\* expire; Klaviyo's expire expires_in after the exchange.
TokenExpiry(p, t, expiresIn) == IF p = "shopify" THEN NoTime ELSE t + expiresIn

AccountIdMissingNever(a) == FALSE

\* `!tokenData.accountId`: the connector returned no account id.
AccountIdMissing(a) == a = 0

\* connector.exchangeCodeForTokens succeeds: the provider issues a token for
\* account a (a = 0: the connector found no accountId, which the manager
\* rejects before any database operation).
CallbackExchange(c, a) ==
  /\ cb[c].pc = "exchange"
  /\ nextToken < MaxTokens
  /\ nextToken' = nextToken + 1
  /\ IF AccountIdMissing(a)
       THEN cb' = [cb EXCEPT ![c] = IdleCb]
       ELSE cb' = [cb EXCEPT ![c] =
                        [@ EXCEPT !.pc = "upsert",
                                  !.access = nextToken + 1,
                                  !.refresh = IF cb[c].provider = "shopify" THEN 0 ELSE nextToken + 1,
                                  !.expiresAt = TokenExpiry(cb[c].provider, now, ExpiresIn),
                                  !.accountId = a]]
  /\ UNCHANGED <<now, oauthStates, nextState, integrations, upserts, consumed, lastDone, rejected, syncLogs>>

\* connector.exchangeCodeForTokens throws (the provider refuses the code).
CallbackExchangeFails(c) ==
  /\ cb[c].pc = "exchange"
  /\ cb' = [cb EXCEPT ![c] = IdleCb]
  /\ UNCHANGED <<now, oauthStates, nextState, integrations, nextToken, upserts, consumed, lastDone, rejected, syncLogs>>

RowTokens(row) ==
  [access |-> Decrypt(EncryptionKey, row.accessToken),
   refresh |-> IF row.refreshToken = NoToken THEN 0 ELSE Decrypt(EncryptionKey, row.refreshToken),
   expiresAt |-> row.expiresAt]

TokenData(r) == [access |-> r.access, refresh |-> r.refresh, expiresAt |-> r.expiresAt]

CbKey(r) == <<r.userId, r.provider, r.accountId>>

\* Encrypt the tokens and upsert the Integration.
CallbackUpsert(c) ==
  /\ cb[c].pc = "upsert"
  /\ integrations' = UpsertIntegration(integrations, CbKey(cb[c]), TokenData(cb[c]))
  /\ upserts' = [x \in DOMAIN upserts \cup {CbKey(cb[c])} |->
                   IF x = CbKey(cb[c]) THEN TokenData(cb[c]) ELSE upserts[x]]
  /\ cb' = [cb EXCEPT ![c].pc = "cleanup"]
  /\ UNCHANGED <<now, oauthStates, nextState, nextToken, consumed, lastDone, rejected, syncLogs>>

\* cleanupOAuthState(state), then the Instant Insights lookup (it changes no
\* Integration) and `return integration`.
CallbackCleanup(c) ==
  /\ cb[c].pc = "cleanup"
  /\ oauthStates' = CleanupOAuthState(oauthStates, cb[c].state)
  /\ cb' = [cb EXCEPT ![c] = IdleCb]
  /\ consumed' = consumed \cup {cb[c].state}
  /\ lastDone' = [x \in DOMAIN lastDone \cup {CbKey(cb[c])} |->
                    IF x = CbKey(cb[c]) THEN TokenData(cb[c]) ELSE lastDone[x]]
  /\ UNCHANGED <<now, nextState, integrations, nextToken, upserts, rejected, syncLogs>>

\* Time passes.
AdvanceClock ==
  /\ now + OAuthStateTtl <= MaxTime
  /\ now' = now + OAuthStateTtl
  /\ UNCHANGED <<oauthStates, nextState, integrations, nextToken, cb, upserts,
                 consumed, lastDone, rejected, syncLogs>>

\* disconnectIntegration(id): prisma.integration.update by id.
DisconnectedRow(row, t) == [row EXCEPT !.status = "disconnected", !.deletedAt = t]

DisconnectIntegration(id) ==
  /\ id \in DOMAIN integrations
  /\ integrations' = [integrations EXCEPT ![id] = DisconnectedRow(@, now)]
  /\ UNCHANGED <<now, oauthStates, nextState, nextToken, cb, upserts, consumed, lastDone, rejected, syncLogs>>

\* What one syncIntegration(id) run does to its Integration row:
\*   "invalid"     validateConnection() returned false: status error,
\*   "synced"      connector.sync() reached updateIntegrationStatus('connected', new Date()),
\*   "sync_error"  connector.sync() caught a structural failure: status error.
SyncedRow(row, outcome, t) ==
  IF outcome = "synced"
    THEN [row EXCEPT !.status = "connected", !.lastSyncAt = t]
    ELSE [row EXCEPT !.status = "error"]

\* The data types a connector's sync() goes through, in its order.
DataTypes(p) ==
  IF p = "shopify" THEN <<"orders", "products", "customers">>
                   ELSE <<"campaigns", "flows", "metrics", "events">>

\* The SyncLog rows of one completed connector.sync(), every data type
\* having succeeded; counts and timestamps are left out and `run` tells who
\* made the call.
SyncLogRows(id, p, run) ==
  {[integrationId |-> id, dataType |-> DataTypes(p)[n], status |-> "success", run |-> run] :
     n \in DOMAIN DataTypes(p)}

\* A syncIntegration call that does not come from the scheduler.
ManualRun == <<0, 0>>

\* syncIntegration(id): rejected unless the row exists and is connected.
SyncIntegration(id, outcome, run) ==
  /\ id \in DOMAIN integrations
  /\ integrations[id].status = "connected"
  /\ integrations' = [integrations EXCEPT ![id] = SyncedRow(@, outcome, now)]
  /\ syncLogs' = IF outcome = "synced"
                   THEN syncLogs \cup SyncLogRows(id, integrations[id].provider, run)
                   ELSE syncLogs
  /\ UNCHANGED <<now, oauthStates, nextState, nextToken, cb, upserts, consumed, lastDone, rejected>>

\* handleTokenRefresh of a connector bound to row id, refreshAccessToken
\* having succeeded: Shopify hands back the current token and nothing else;
\* Klaviyo issues a new access token, refresh token and expiry. (The
\* connector object is taken to have been built from the row as it is now.)
RefreshedRow(row, token, t) ==
  IF row.provider = "shopify"
    THEN [row EXCEPT !.status = "connected"]
    ELSE [row EXCEPT !.accessToken = Encrypt(EncryptionKey, token),
                     !.refreshToken = Encrypt(EncryptionKey, token),
                     !.expiresAt = t + ExpiresIn,
                     !.status = "connected"]

TokenRefresh(id) ==
  /\ id \in DOMAIN integrations
  /\ integrations[id].provider = "shopify" \/ nextToken < MaxTokens
  /\ nextToken' = IF integrations[id].provider = "shopify" THEN nextToken ELSE nextToken + 1
  /\ integrations' = [integrations EXCEPT ![id] = RefreshedRow(@, nextToken + 1, now)]
  /\ UNCHANGED <<now, oauthStates, nextState, cb, upserts, consumed, lastDone, rejected, syncLogs>>

\* handleTokenRefresh, refreshAccessToken having thrown: status expired.
TokenRefreshFails(id) ==
  /\ id \in DOMAIN integrations
  /\ integrations' = [integrations EXCEPT ![id] = [@ EXCEPT !.status = "expired"]]
  /\ UNCHANGED <<now, oauthStates, nextState, nextToken, cb, upserts, consumed, lastDone, rejected, syncLogs>>

(***************************************************************************)
(* ConnectorManager.syncIntegration, one await at a time.  A call is       *)
(* identified by who made it (a scheduler callback or the manual route)    *)
(* and by the integration id it was given; `did` collects what the call    *)
(* has done: "validateConnection", "invalid", "refresh_failed", "sync".    *)
(* The database serves every update of this section.                      *)
(***************************************************************************)
\* The Integration table after the OAuth callbacks of one Shopify and one
\* Klaviyo account.
ConnectedRows ==
  UpsertIntegration(
    UpsertIntegration(<<>>, <<1, "shopify", 1>>,
                      [access |-> 1, refresh |-> 0, expiresAt |-> NoTime]),
    <<1, "klaviyo", 1>>,
    [access |-> 2, refresh |-> 2, expiresAt |-> TokenExpiry("klaviyo", 0, ExpiresIn)])

Origins == Calls \cup {ManualRun}
\* The ids syncIntegration is called with: those of ConnectedRows and one
\* that no row has.
Ids == 1..(Len(ConnectedRows) + 1)
Slots == Origins \X Ids

IdleCall == [pc |-> "idle", did |-> {}]
IdleUs == [pc |-> "idle", started |-> {}]
IdleHttp == [pc |-> "idle", id |-> 1, skip |-> FALSE, log |-> <<>>]

Running(call) == call.pc \in {"called", "validate", "sync", "catch"}
Finished(call) == call.pc \in {"done", "raised"}

\* Who a call's SyncLog rows are attributed to.
RunOf(o) == IF o = ManualRun THEN ManualRun ELSE <<InstOf(o), batch[o].tick>>

SiState(s) == [call |-> si[s], rows |-> integrations, logs |-> syncLogs]

\* findUnique and the two checks on what it returned.
SiLoadAnyStatus(st, id) ==
  IF id \in DOMAIN st.rows
    THEN [st EXCEPT !.call = [@ EXCEPT !.pc = "validate"]]
    ELSE [st EXCEPT !.call = [@ EXCEPT !.pc = "raised"]]

SiLoad(st, id) ==
  IF id \in DOMAIN st.rows /\ st.rows[id].status = "connected"
    THEN [st EXCEPT !.call = [@ EXCEPT !.pc = "validate"]]
    ELSE [st EXCEPT !.call = [@ EXCEPT !.pc = "raised"]]

\* What connector.validateConnection() comes to: it answers true, or false
\* because its request failed.
ValidateAnswers == {"valid", "invalid"}

\* validateConnection() and, on false, the update to status error and the throw.
SiValidate(st, id, answer) ==
  IF answer = "valid"
    THEN [st EXCEPT !.call = [pc |-> "sync", did |-> @.did \cup {"validateConnection"}]]
    ELSE [st EXCEPT !.rows = [@ EXCEPT ![id] = [@ EXCEPT !.status = "error"]],
                    !.call = [pc |-> "catch",
                              did |-> @.did \cup {"validateConnection", "invalid"}]]

\* How a connector.sync() that returns its results went:
\*   "synced"          every data type succeeded,
\*   "sync_error"      sync()'s catch block ran,
\*   "refresh_failed"  handleTokenRefresh threw, and every data type failed.
SyncRunOutcomes == {"synced", "sync_error", "refresh_failed"}

ErrorLogRows(id, p, run) ==
  {[integrationId |-> id, dataType |-> DataTypes(p)[n], status |-> "error", run |-> run] :
     n \in DOMAIN DataTypes(p)}

\* connector.sync() and the return of its results.
SiSync(st, id, outcome, run, t) ==
  [st EXCEPT
     !.rows = [@ EXCEPT ![id] =
                 SyncedRow(@, IF outcome = "refresh_failed" THEN "synced" ELSE outcome, t)],
     !.logs = IF outcome = "synced"
                THEN @ \cup SyncLogRows(id, st.rows[id].provider, run)
                ELSE IF outcome = "refresh_failed"
                       THEN @ \cup ErrorLogRows(id, st.rows[id].provider, run)
                       ELSE @,
     !.call = [pc |-> "done", did |-> @.did \cup {"sync"}]]

\* The catch block: status error, and the error is thrown again.
SiCatch(st, id) ==
  [st EXCEPT !.rows = [@ EXCEPT ![id] = [@ EXCEPT !.status = "error"]],
             !.call = [@ EXCEPT !.pc = "raised"]]

SiBecomes(s, st) ==
  /\ si' = [si EXCEPT ![s] = st.call]
  /\ integrations' = st.rows
  /\ syncLogs' = st.logs
  /\ UNCHANGED <<lockVars, tickVars, us, now, oauthStates, nextState, nextToken, cb, upserts,
                 consumed, lastDone, rejected>>

\* Only Klaviyo's refreshAccessToken asks the provider for anything.
RefreshCanFail(id) == id \in DOMAIN integrations /\ integrations[id].provider = "klaviyo"

CallLoads(s) ==
  /\ si[s].pc = "called"
  /\ SiBecomes(s, SiLoad(SiState(s), s[2]))

\* handleTokenRefresh throws while a request of validateConnection() or of
\* sync() is being prepared or retried: status expired.
CallRefreshFails(s) ==
  /\ si[s].pc \in {"validate", "sync"}
  /\ "refresh_failed" \notin si[s].did
  /\ RefreshCanFail(s[2])
  /\ TokenRefreshFails(s[2])
  /\ si' = [si EXCEPT ![s].did = @ \cup {"refresh_failed"}]
  /\ UNCHANGED <<lockVars, tickVars, us>>

CallValidates(s, answer) ==
  /\ si[s].pc = "validate"
  /\ "refresh_failed" \in si[s].did => answer = "invalid"
  /\ SiBecomes(s, SiValidate(SiState(s), s[2], answer))

CallSyncs(s, outcome) ==
  /\ si[s].pc = "sync"
  /\ outcome = "refresh_failed" <=> "refresh_failed" \in si[s].did
  /\ SiBecomes(s, SiSync(SiState(s), s[2], outcome, RunOf(s[1]), now))

CallCatches(s) ==
  /\ si[s].pc = "catch"
  /\ SiBecomes(s, SiCatch(SiState(s), s[2]))

IdlePg == [pc |-> "idle", provider |-> "shopify", total |-> 0, times |-> <<>>,
           clock |-> 0, status |-> "none"]

InitRest ==
  /\ pg = IdlePg
  /\ vault = [pc |-> "down", env |-> 0, managerKey |-> 0, connectorKey |-> 0,
              text |-> <<>>, how |-> [kind |-> "none", n |-> 16],
              stored |-> <<>>, by |-> "manager",
              out |-> [ok |-> FALSE, text |-> <<>>, error |-> "Failed to decrypt token"]]
  /\ rt = [updatedAt |-> <<>>, last |-> [op |-> "none", id |-> 0],
           status |-> [code |-> 0, connected |-> FALSE, provider |-> "", id |-> 0, status |-> "",
                       shop |-> 0, lastSyncAt |-> 0 - 1, deletedAt |-> 0 - 1, text |-> ""],
           sync |-> [code |-> 0, connected |-> FALSE, provider |-> "", id |-> 0, status |-> "",
                     shop |-> 0, lastSyncAt |-> 0 - 1, deletedAt |-> 0 - 1, text |-> ""],
           fired |-> 0, outcome |-> "none"]
  /\ conn = [pc |-> "down", env |-> [p \in Providers |-> TRUE],
             resp |-> [code |-> 0, url |-> [authUrl |-> "", client_id |-> "", state |-> 0],
                       state |-> 0, provider |-> "", text |-> ""]]
  /\ wm = [logs |-> {}, clock |-> 0,
           read |-> [id |-> 0, dataType |-> "", value |-> 0 - 1, at |-> 0]]
  /\ pk = [n |-> 0, rows |-> <<>>, urls |-> <<>>, made |-> <<>>,
           exchange |-> [state |-> 0, provider |-> "", codeVerifier |-> "undefined"]]
  /\ cad = [hour |-> 0, stage |-> "wait", queryAt |-> 0, row |-> ConnectedRows[1], hist |-> <<>>]

InitMgr ==
  /\ si = [s \in Slots |-> IdleCall]
  /\ us = IdleUs
  /\ http = IdleHttp
  /\ InitRest


InitOAuthVars ==
  /\ now = 0
  /\ oauthStates = <<>>
  /\ nextState = 0
  /\ integrations = <<>>
  /\ nextToken = 0
  /\ cb = [c \in Callers |-> IdleCb]
  /\ upserts = <<>>
  /\ consumed = {}
  /\ lastDone = <<>>
  /\ rejected = [seen |-> "valid", late |-> FALSE]

InitTickVars ==
  /\ syncLogs = {}
  /\ fired = [i \in Instances |-> 0]
  /\ batch = [c \in Calls |-> NoBatch]
  /\ due = {}
  /\ syncCalls = {}
  /\ sync = IdleSync
  /\ InitMgr

InitOAuth == InitLock /\ InitOAuthVars /\ InitTickVars

OAuthInitiated == \E u \in Users, p \in Providers : InitiateOAuth(u, p)
OAuthCallbackArrives == \E c \in Callers, p \in Providers, s \in 1..MaxStates : CallbackValidate(c, p, s)
TokenExchangeSucceeds == \E c \in Callers, a \in Accounts : CallbackExchange(c, a)
TokenExchangeWithoutAccount == \E c \in Callers : CallbackExchange(c, 0)
TokenExchangeFails == \E c \in Callers : CallbackExchangeFails(c)
IntegrationUpserted == \E c \in Callers : CallbackUpsert(c)
OAuthCallbackReturns == \E c \in Callers : CallbackCleanup(c)

NextOAuth ==
  /\ \/ OAuthInitiated
     \/ OAuthCallbackArrives
     \/ TokenExchangeSucceeds
     \/ TokenExchangeWithoutAccount
     \/ TokenExchangeFails
     \/ IntegrationUpserted
     \/ OAuthCallbackReturns
     \/ AdvanceClock
  /\ UNCHANGED <<lockVars, tickVars, sync, mgrVars, http, restVars>>

SpecOAuth == InitOAuth /\ [][NextOAuth]_allVars

IntegrationDisconnected == \E id \in 1..Len(integrations) : DisconnectIntegration(id)
SyncOutcomes == {"invalid", "synced", "sync_error"}

IntegrationSynced == \E id \in 1..Len(integrations), o \in SyncOutcomes : SyncIntegration(id, o, ManualRun)
TokenRefreshed == \E id \in 1..Len(integrations) : TokenRefresh(id)
TokenRefreshFailed == \E id \in 1..Len(integrations) : TokenRefreshFails(id)

\* Every operation on the Integration table, in any order, at one instant
\* (the only thing the passing of time changes, the expiry of a pending OAuth
\* state, is SpecOAuth's subject).
NextRecords ==
  /\ \/ OAuthInitiated
     \/ OAuthCallbackArrives
     \/ TokenExchangeSucceeds
     \/ TokenExchangeWithoutAccount
     \/ TokenExchangeFails
     \/ IntegrationUpserted
     \/ OAuthCallbackReturns
     \/ IntegrationDisconnected
     \/ IntegrationSynced
     \/ TokenRefreshed
     \/ TokenRefreshFailed
  /\ UNCHANGED <<lockVars, tickVars, sync, mgrVars, http, restVars>>

SpecRecords == InitOAuth /\ [][NextRecords]_allVars

(***************************************************************************)
(* The hourly scheduled sync (initializeSyncScheduler) on every instance.  *)
(***************************************************************************)

\* cron '0 * * * *', in minutes.
TickPeriod == 60

\* 60 * 60 * 1000 ms, in minutes.
SyncWindow == 60

CurrentTick == now \div TickPeriod

\* The where clause of the batch's findMany.
Eligible(rows, t) ==
  {i \in DOMAIN rows :
     /\ rows[i].status = "connected"
     /\ rows[i].deletedAt = NoTime
     /\ (rows[i].lastSyncAt = NoTime \/ rows[i].lastSyncAt < t - SyncWindow)}

\* What findMany returns: the rows in some order (ascending id here; the loop
\* visits every one of them whatever the order).
RECURSIVE Ascending(_)
Ascending(ids) ==
  IF ids = {} THEN <<>>
  ELSE LET m == CHOOSE x \in ids : \A y \in ids : x <= y
       IN  <<m>> \o Ascending(ids \ {m})

\* The cron callback on instance i: withAdvisoryLock up to the point where
\* tryAcquireLock has answered, its query served on pooled connection k.
TickFires(i, k) ==
  /\ fired[i] = CurrentTick
  /\ fired' = [fired EXCEPT ![i] = @ + 1]
  /\ \E c \in Calls :
       /\ InstOf(c) = i
       /\ AcquireStep(c, k, "ok")
       /\ batch' = [batch EXCEPT ![c] =
                      IF TryAcquireLock("ok", PgLockGranted(advLocks, <<i, k>>))
                        THEN [stage |-> "find", todo |-> <<>>, found |-> {}, tick |-> CurrentTick]
                        ELSE NoBatch]
  /\ UNCHANGED <<oauthVars, syncLogs, due, syncCalls, mgrVars>>

\* fn: the findMany of the integrations that were not synced recently.
BatchFindMany(c) ==
  /\ pc[c] = "fn"
  /\ batch[c].stage = "find"
  /\ batch' = [batch EXCEPT ![c] = [@ EXCEPT !.stage = "loop",
                                            !.todo = Ascending(Eligible(integrations, now)),
                                            !.found = Eligible(integrations, now)]]
  /\ UNCHANGED <<lockVars, oauthVars, syncLogs, fired, due, syncCalls, mgrVars>>

\* fn: one turn of the loop begins, syncIntegration(integration.id) is called.
BatchSyncStarts(c) ==
  /\ pc[c] = "fn"
  /\ batch[c].stage = "loop"
  /\ batch[c].todo # <<>>
  /\ si[<<c, Head(batch[c].todo)>>].pc = "idle"
  /\ si' = [si EXCEPT ![<<c, Head(batch[c].todo)>>] = [IdleCall EXCEPT !.pc = "called"]]
  /\ syncCalls' = syncCalls \cup {<<InstOf(c), batch[c].tick, Head(batch[c].todo)>>}
  /\ UNCHANGED <<lockVars, oauthVars, syncLogs, fired, batch, due, us>>

\* The loop after the awaited call: its error, if any, is caught and logged.
AfterCallUncaught(b, call) ==
  IF call.pc = "raised" THEN [b EXCEPT !.todo = <<>>] ELSE [b EXCEPT !.todo = Tail(@)]

AfterCall(b, call) == [b EXCEPT !.todo = Tail(@)]

\* fn: the awaited syncIntegration has returned or raised; the turn is over.
BatchSyncSettles(c) ==
  /\ pc[c] = "fn"
  /\ batch[c].stage = "loop"
  /\ batch[c].todo # <<>>
  /\ Finished(si[<<c, Head(batch[c].todo)>>])
  /\ batch' = [batch EXCEPT ![c] = AfterCall(@, si[<<c, Head(batch[c].todo)>>])]
  /\ UNCHANGED <<lockVars, oauthVars, syncLogs, fired, due, syncCalls, mgrVars>>

\* fn returns once the loop is through.
BatchEnds(c) ==
  /\ batch[c].stage = "loop"
  /\ batch[c].todo = <<>>
  /\ FnEndStep(c, FALSE)
  /\ batch' = [batch EXCEPT ![c] = NoBatch]
  /\ si' = [s \in Slots |-> IF s[1] = c THEN IdleCall ELSE si[s]]
  /\ UNCHANGED <<oauthVars, syncLogs, fired, due, syncCalls, us>>

\* The finally block: releaseLock, its query served on pooled connection k.
TickReleases(c, k) ==
  /\ ReleaseStep(c, k, "ok")
  /\ UNCHANGED <<oauthVars, syncLogs, tickVars, mgrVars>>

\* What the scheduler's fn resolves to: the arrow function has no return
\* statement.
BatchResult == "undefined"

\* `const ran = await withAdvisoryLock(...)`, step being the step with which
\* the call settled: not acquired, or the release after fn.
Ran(step) ==
  IF step.op = "release" /\ step.value = "result" THEN BatchResult ELSE step.value

\* What the cron callback logs once withAdvisoryLock has settled: the skip
\* message `if (!ran)`, the error message in its catch block, or nothing.
TickReport(step) ==
  IF ~(step.op = "release" \/ (step.op = "acquire" /\ step.value = "undefined")) THEN "pending"
  ELSE IF step.value = "threw" THEN "error"
  ELSE IF Ran(step) = "undefined" THEN "skipped"
  ELSE "nothing"

\* The next full hour begins; every instance's cron has fired for this one
\* and the callbacks have returned.
NextHour ==
  /\ \A i \in Instances : fired[i] > CurrentTick
  /\ \A c \in Calls : pc[c] = "idle"
  /\ CurrentTick + 1 < MaxTicks
  /\ now' = now + TickPeriod
  /\ due' = Eligible(integrations, now + TickPeriod)
  /\ UNCHANGED <<lockVars, oauthStates, nextState, integrations, nextToken, cb, upserts,
                 consumed, lastDone, rejected, syncLogs, fired, batch, syncCalls, mgrVars>>

InitTick ==
  /\ InitLock
  /\ now = 0
  /\ oauthStates = <<>>
  /\ nextState = 2
  /\ integrations = ConnectedRows
  /\ nextToken = 2
  /\ cb = [c \in Callers |-> IdleCb]
  /\ upserts = [k \in {RowKey(ConnectedRows[i]) : i \in DOMAIN ConnectedRows} |->
                  RowTokens(ConnectedRows[CHOOSE i \in DOMAIN ConnectedRows : RowKey(ConnectedRows[i]) = k])]
  /\ lastDone = upserts
  /\ consumed = {1, 2}
  /\ rejected = [seen |-> "valid", late |-> FALSE]
  /\ syncLogs = {}
  /\ fired = [i \in Instances |-> 0]
  /\ batch = [c \in Calls |-> NoBatch]
  /\ due = Eligible(ConnectedRows, 0)
  /\ syncCalls = {}
  /\ sync = IdleSync
  /\ InitMgr

CronFires == \E i \in Instances, k \in Conns : TickFires(i, k)
BatchQueries == \E c \in Calls : BatchFindMany(c)
BatchSyncStarted == \E c \in Calls : BatchSyncStarts(c)
BatchCallLoads == \E c \in Calls, id \in Ids : CallLoads(<<c, id>>)
BatchCallRefreshFails == \E c \in Calls, id \in Ids : CallRefreshFails(<<c, id>>)
BatchCallValidates == \E c \in Calls, id \in Ids, a \in ValidateAnswers : CallValidates(<<c, id>>, a)
BatchCallSyncs == \E c \in Calls, id \in Ids, o \in SyncRunOutcomes : CallSyncs(<<c, id>>, o)
BatchCallCatches == \E c \in Calls, id \in Ids : CallCatches(<<c, id>>)
BatchSyncSettled == \E c \in Calls : BatchSyncSettles(c)
BatchReturns == \E c \in Calls : BatchEnds(c)
LockReleased == \E c \in Calls, k \in Conns : TickReleases(c, k)

NextTick ==
  /\ \/ CronFires
     \/ BatchQueries
     \/ BatchSyncStarted
     \/ BatchCallLoads
     \/ BatchCallRefreshFails
     \/ BatchCallValidates
     \/ BatchCallSyncs
     \/ BatchCallCatches
     \/ BatchSyncSettled
     \/ BatchReturns
     \/ LockReleased
     \/ NextHour
  /\ UNCHANGED <<sync, http, restVars>>

SpecTick == InitTick /\ [][NextTick]_allVars

\* The event loop runs a callback's continuation once the promise it awaits
\* has settled, and every query and provider request of the batch settles.
SpecTickFair == SpecTick /\ WF_allVars(NextTick)

(***************************************************************************)
(* ShopifyConnector.sync() step by step, on the Shopify integration of     *)
(* ConnectedRows.  A state of the run is [sync, logs, rows]: the           *)
(* invocation, the SyncLog table and the Integration table.                *)
(***************************************************************************)

SyncTarget == 1

\* The routine sync() calls after the one for data type dt.
NextStage(dt) ==
  IF dt = "orders" THEN "products" ELSE IF dt = "products" THEN "customers" ELSE "finish"

\* logSync(result) having written its SyncLog row.
LogSync(st, dt, status) ==
  [st EXCEPT !.logs = @ \cup {[integrationId |-> SyncTarget, dataType |-> dt,
                               status |-> status, run |-> <<0, st.sync.run>>]}]

\* An exception reaches sync()'s catch block.
SyncCatch(st) == [st EXCEPT !.sync.pc = "catch"]

\* sync()'s catch block: `await this.updateIntegrationStatus('error')`, then
\* the 'sync_error' result is pushed and the results are returned; if the
\* update throws (db = "throws"), the exception leaves sync().
CatchBlock(st, db) ==
  IF db = "ok"
    THEN [st EXCEPT !.rows = [@ EXCEPT ![SyncTarget] = [@ EXCEPT !.status = "error"]],
                    !.sync = [@ EXCEPT !.pc = "idle",
                                       !.results = Append(@, [dataType |-> "sync_error", status |-> "error"]),
                                       !.wrote = @ \cup {"error"}]]
    ELSE [st EXCEPT !.sync = [@ EXCEPT !.pc = "thrown", !.dbFailed = TRUE]]

\* A routine logs its result and returns it to sync(), which pushes it and
\* goes on to the next routine.
RoutineReturns(st, dt, status) ==
  [LogSync(st, dt, status) EXCEPT
     !.sync = [@ EXCEPT !.pc = NextStage(dt), !.page = 0,
                        !.results = Append(@, [dataType |-> dt, status |-> status])]]

RoutineCatchRethrows(st, dt, db) == SyncCatch(st)

\* The catch block of syncOrders and syncProducts: the error result is
\* logged and returned; if that logSync throws (db = "throws"), the
\* exception reaches sync()'s catch block.
RoutineCatch(st, dt, db) ==
  IF db = "ok" THEN RoutineReturns(st, dt, "error")
               ELSE SyncCatch([st EXCEPT !.sync.dbFailed = TRUE])

RoutineEndsLogsTwice(st, dt, loop, db1, db2) ==
  RoutineCatch(LogSync(st, dt, "success"), dt, db2)

\* The end of a paginated routine's try block: the loop threw
\* (loop = "throws") or ran to its last page; the success row is logged with
\* db1 and the catch block's error row with db2.
RoutineEnds(st, dt, loop, db1, db2) ==
  IF loop = "throws"
    THEN RoutineCatch([st EXCEPT !.sync.threw = @ \cup {<<dt, st.sync.page>>}], dt, db2)
    ELSE IF db1 = "ok"
           THEN RoutineReturns(st, dt, "success")
           ELSE RoutineCatch([st EXCEPT !.sync.dbFailed = TRUE], dt, db2)

\* syncCustomers: no request and no try block, only the success row.
SyncCustomers(st, db) ==
  IF db = "ok" THEN RoutineReturns(st, "customers", "success")
               ELSE SyncCatch([st EXCEPT !.sync.dbFailed = TRUE])

\* updateIntegrationStatus('connected', new Date()) and `return results`; if
\* the update throws, sync()'s catch block is next.
SyncFinish(st, t, db) ==
  IF db = "throws" THEN SyncCatch([st EXCEPT !.sync.dbFailed = TRUE]) ELSE
  [st EXCEPT !.rows = [@ EXCEPT ![SyncTarget] = [@ EXCEPT !.status = "connected", !.lastSyncAt = t]],
             !.sync = [@ EXCEPT !.pc = "idle", !.wrote = @ \cup {"connected"}]]

SyncState == [sync |-> sync, logs |-> syncLogs, rows |-> integrations]

SyncBecomes(st) ==
  /\ sync' = st.sync
  /\ syncLogs' = st.logs
  /\ integrations' = st.rows
  /\ UNCHANGED <<lockVars, tickVars, mgrVars, http, restVars, now, oauthStates, nextState, nextToken, cb,
                 upserts, consumed, lastDone, rejected>>

\* connector.sync() is called.
SyncStarts ==
  /\ sync.pc \in {"idle", "thrown"}
  /\ sync.run < MaxSyncs
  /\ SyncBecomes([SyncState EXCEPT !.sync = [IdleSync EXCEPT !.pc = "init", !.run = sync.run + 1]])

\* initializeGraphQLClient returns.
ClientInitialized ==
  /\ sync.pc = "init"
  /\ SyncBecomes([SyncState EXCEPT !.sync.pc = "orders"])

\* initializeGraphQLClient throws (the stored token cannot be decrypted).
ClientInitFails ==
  /\ sync.pc = "init"
  /\ SyncBecomes(SyncCatch(SyncState))

\* A page of orders or products is fetched and stored, and there is another.
PageFetched ==
  /\ sync.pc \in {"orders", "products"}
  /\ sync.page < MaxPages
  /\ SyncBecomes([SyncState EXCEPT !.sync.page = @ + 1])

\* A page is fetched and stored whose pageInfo has hasNextPage true and an
\* end cursor the provider has handed out before: the loop, which has no
\* other exit than hasNextPage false or an exception, is back where it was
\* one page earlier.
CursorRepeats ==
  /\ sync.pc \in {"orders", "products"}
  /\ sync.page = MaxPages
  /\ SyncBecomes([SyncState EXCEPT !.sync.page = @ - 1])

\* The last page is fetched and stored, or the request for a page throws.
RoutineDone ==
  /\ sync.pc \in {"orders", "products"}
  /\ \E loop \in {"last", "throws"}, db1, db2 \in {"ok", "throws"} :
       SyncBecomes(RoutineEnds(SyncState, sync.pc, loop, db1, db2))

CustomersDone ==
  /\ sync.pc = "customers"
  /\ \E db \in {"ok", "throws"} : SyncBecomes(SyncCustomers(SyncState, db))

SyncReturns ==
  /\ sync.pc = "finish"
  /\ \E db \in {"ok", "throws"} : SyncBecomes(SyncFinish(SyncState, now, db))

SyncCaught ==
  /\ sync.pc = "catch"
  /\ \E db \in {"ok", "throws"} : SyncBecomes(CatchBlock(SyncState, db))

NextSync ==
  \/ SyncStarts
  \/ ClientInitialized
  \/ ClientInitFails
  \/ PageFetched
  \/ CursorRepeats
  \/ RoutineDone
  \/ CustomersDone
  \/ SyncReturns
  \/ SyncCaught

SpecSync == InitTick /\ [][NextSync]_allVars

\* Every query and request sync() awaits settles, so sync() keeps taking
\* steps; what the provider answers is not constrained.
SpecSyncFair == SpecSync /\ WF_allVars(NextSync)

(***************************************************************************)
(* The manager's operations next to the scheduler: the manual sync route,  *)
(* syncUserIntegrations and disconnectIntegration.                         *)
(***************************************************************************)

\* The manual sync route calls syncIntegration(id) and does not wait for it.
ManualSync(id) ==
  /\ ~Running(si[<<ManualRun, id>>])
  /\ us.pc = "waiting" => id \notin us.started
  /\ si' = [si EXCEPT ![<<ManualRun, id>>] = [IdleCall EXCEPT !.pc = "called"]]
  /\ UNCHANGED <<lockVars, oauthVars, syncLogs, tickVars, us>>

\* The where clause of syncUserIntegrations' findMany.
UserIntegrations(rows, u) ==
  {i \in DOMAIN rows :
     /\ rows[i].userId = u
     /\ rows[i].status = "connected"
     /\ rows[i].deletedAt = NoTime}

\* syncUserIntegrations(u) up to its await: findMany, and the map that calls
\* syncIntegration for every row found.
SyncUserIntegrations(u) ==
  /\ us.pc # "waiting"
  /\ \A id \in Ids : ~Running(si[<<ManualRun, id>>])
  /\ us' = [pc |-> "waiting", started |-> UserIntegrations(integrations, u)]
  /\ si' = [s \in Slots |->
              IF s[1] # ManualRun THEN si[s]
              ELSE IF s[2] \in UserIntegrations(integrations, u)
                     THEN [IdleCall EXCEPT !.pc = "called"]
                     ELSE IdleCall]
  /\ UNCHANGED <<lockVars, oauthVars, syncLogs, tickVars>>

\* Promise.all over the started calls. Each call's promise carries a catch
\* handler that logs, so it is fulfilled whether the call returned or raised.
PromiseAllUncaught(started, calls) ==
  IF \E id \in started : calls[<<ManualRun, id>>].pc = "raised" THEN "rejected"
  ELSE IF \A id \in started : Finished(calls[<<ManualRun, id>>]) THEN "fulfilled"
  ELSE "pending"

PromiseAll(started, calls) ==
  IF \A id \in started : Finished(calls[<<ManualRun, id>>]) THEN "fulfilled" ELSE "pending"

\* The await of syncUserIntegrations is over.
UserSyncEnds ==
  /\ us.pc = "waiting"
  /\ PromiseAll(us.started, si) # "pending"
  /\ us' = [us EXCEPT !.pc = IF PromiseAll(us.started, si) = "fulfilled" THEN "done" ELSE "raised"]
  /\ UNCHANGED <<lockVars, oauthVars, syncLogs, tickVars, si>>

Disconnects(id) ==
  /\ DisconnectIntegration(id)
  /\ UNCHANGED <<lockVars, tickVars, mgrVars>>

ManualSyncCalled == \E id \in Ids : ManualSync(id)
UserSyncCalled == \E u \in Users : SyncUserIntegrations(u)
UserCallLoads == \E id \in Ids : CallLoads(<<ManualRun, id>>)
UserCallRefreshFails == \E id \in Ids : CallRefreshFails(<<ManualRun, id>>)
UserCallValidates == \E id \in Ids, a \in ValidateAnswers : CallValidates(<<ManualRun, id>>, a)
UserCallSyncs == \E id \in Ids, o \in SyncRunOutcomes : CallSyncs(<<ManualRun, id>>, o)
UserCallCatches == \E id \in Ids : CallCatches(<<ManualRun, id>>)
Disconnected == \E id \in Ids : Disconnects(id)

NextManager ==
  /\ \/ ManualSyncCalled
     \/ UserSyncCalled
     \/ UserCallLoads
     \/ UserCallRefreshFails
     \/ UserCallValidates
     \/ UserCallSyncs
     \/ UserCallCatches
     \/ UserSyncEnds
     \/ Disconnected
  /\ UNCHANGED <<sync, http, restVars>>

SpecManager == InitTick /\ [][NextManager]_allVars

\* The scheduler's ticks together with the manual sync route of the user's
\* Shopify integration: both call syncIntegration on the one table.
RouteSyncCalled == ManualSync(SyncTarget)
RouteCallLoads == CallLoads(<<ManualRun, SyncTarget>>)
RouteCallValidates == \E a \in ValidateAnswers : CallValidates(<<ManualRun, SyncTarget>>, a)
RouteCallSyncs == \E o \in SyncRunOutcomes : CallSyncs(<<ManualRun, SyncTarget>>, o)
RouteCallCatches == CallCatches(<<ManualRun, SyncTarget>>)

NextOverlap ==
  /\ \/ CronFires
     \/ BatchQueries
     \/ BatchSyncStarted
     \/ BatchCallLoads
     \/ BatchCallValidates
     \/ BatchCallSyncs
     \/ BatchCallCatches
     \/ BatchSyncSettled
     \/ BatchReturns
     \/ LockReleased
     \/ RouteSyncCalled
     \/ RouteCallLoads
     \/ RouteCallValidates
     \/ RouteCallSyncs
     \/ RouteCallCatches
  /\ UNCHANGED <<sync, http, restVars>>

SpecOverlap == InitTick /\ [][NextOverlap]_allVars


(***************************************************************************)
(* One request through a connector's httpClient and its response           *)
(* interceptor.  `log` is what has happened to the request so far: "send"  *)
(* for each time it was sent, the status of each answer, "refresh" and     *)
(* "refresh_failed" for the calls of handleTokenRefresh.  A request carries *)
(* skip when its config has skipAuthRefresh or the connector was built for *)
(* the callback's temporary integration.  (handleResponseError, the other  *)
(* error handler of BaseConnector, is called from nowhere.)                *)
(***************************************************************************)
Statuses == {"200", "401", "429", "500"}

Count(log, e) == Cardinality({n \in DOMAIN log : log[n] = e})

\* The response interceptor on an answer: a success is passed on; a 401 of a
\* request that does not skip the refresh goes to handleTokenRefresh; every
\* other error is rejected as it is.
Intercept(req, status) ==
  [req EXCEPT !.log = Append(@, status),
              !.pc = IF status = "200" THEN "fulfilled"
                     ELSE IF status = "401" /\ ~req.skip THEN "refresh"
                     ELSE "rejected"]

\* After handleTokenRefresh returned the token: the Authorization header is
\* replaced and error.config is sent again through the same httpClient.
RetryWithToken(req) ==
  [req EXCEPT !.log = @ \o <<"refresh", "send">>, !.pc = "sent"]

\* After handleTokenRefresh threw: logged, and the 401 is rejected.
RefreshRejected(req) ==
  [req EXCEPT !.log = Append(@, "refresh_failed"), !.pc = "rejected"]

\* The connector of integration id sends a request.
HttpRequest(id, skip) ==
  /\ http.pc \in {"idle", "fulfilled", "rejected"}
  /\ id \in DOMAIN integrations
  /\ http' = [pc |-> "sent", id |-> id, skip |-> skip, log |-> <<"send">>]
  /\ UNCHANGED <<oauthVars, syncLogs>>

\* The provider answers.
HttpAnswer(status) ==
  /\ http.pc = "sent"
  /\ http' = Intercept(http, status)
  /\ UNCHANGED <<oauthVars, syncLogs>>

\* The interceptor's handleTokenRefresh succeeds and the request is retried.
HttpRefreshRetries ==
  /\ http.pc = "refresh"
  /\ Count(http.log, "send") < MaxSends
  /\ nextToken < MaxTokens + MaxSends
  /\ integrations' = [integrations EXCEPT ![http.id] = RefreshedRow(@, nextToken + 1, now)]
  /\ nextToken' = IF integrations[http.id].provider = "shopify" THEN nextToken ELSE nextToken + 1
  /\ http' = RetryWithToken(http)
  /\ UNCHANGED <<now, oauthStates, nextState, cb, upserts, consumed, lastDone, rejected, syncLogs>>

\* The interceptor's handleTokenRefresh fails.
HttpRefreshFails ==
  /\ http.pc = "refresh"
  /\ RefreshCanFail(http.id)
  /\ TokenRefreshFails(http.id)
  /\ http' = RefreshRejected(http)

RequestSent == \E id \in Ids, skip \in BOOLEAN : HttpRequest(id, skip)
ProviderAnswers == \E status \in Statuses : HttpAnswer(status)

NextHttp ==
  /\ \/ RequestSent
     \/ ProviderAnswers
     \/ HttpRefreshRetries
     \/ HttpRefreshFails
  /\ UNCHANGED <<lockVars, tickVars, sync, mgrVars, restVars>>

SpecHttp == InitTick /\ [][NextHttp]_allVars

(***************************************************************************)
(* The pagination loop of a data-type routine (syncOrders, syncProducts,   *)
(* syncCampaigns, syncFlows, syncEvents), with the time in milliseconds at *)
(* which each page request is issued.                                      *)
(***************************************************************************)
MaxPageCount == 3
MaxLatency == 1

ShopifyRateLimitDelay == 500
KlaviyoRateLimitDelay == 100

\* this.rateLimitDelay as the connector's constructor leaves it.
RateLimitDelay(p) == IF p = "shopify" THEN ShopifyRateLimitDelay ELSE KlaviyoRateLimitDelay

\* How long a request, or the storing of a page, may take.
Latencies == 0..MaxLatency

DelayNone(clock, ms) == clock

\* `await this.delay(ms)`: the timer fires when ms milliseconds have passed.
Delay(clock, ms) == clock + ms

\* The routine of a connector of provider p starts; the provider holds
\* total pages.
PagedRoutine(p, total) ==
  /\ pg.pc \in {"idle", "done"}
  /\ pg' = [IdlePg EXCEPT !.pc = "request", !.provider = p, !.total = total]

\* The loop body up to the request: the page is requested and answered
\* after lat milliseconds, or the request throws and the routine's catch
\* block ends the routine with an error result.
PageRequest(lat, answer) ==
  /\ pg.pc = "request"
  /\ pg' = [pg EXCEPT !.times = Append(@, pg.clock),
                      !.clock = @ + lat,
                      !.pc = IF answer = "ok" THEN "store" ELSE "done",
                      !.status = IF answer = "ok" THEN @ ELSE "error"]

\* The page's records are stored, which takes lat milliseconds, and
\* hasNextPage / nextUrl is taken from the response.
PageStore(lat) ==
  /\ pg.pc = "store"
  /\ pg' = [pg EXCEPT !.clock = @ + lat, !.pc = "delay"]

\* `await this.delay(this.rateLimitDelay)` at the end of the loop body, then
\* the loop condition: another request if the provider announced a next
\* page, the success result otherwise.
PageDelay ==
  /\ pg.pc = "delay"
  /\ pg' = [pg EXCEPT !.clock = Delay(@, RateLimitDelay(pg.provider)),
                      !.pc = IF Len(pg.times) < pg.total THEN "request" ELSE "done",
                      !.status = IF Len(pg.times) < pg.total THEN @ ELSE "success"]

RoutineCalled == \E p \in Providers, total \in 1..MaxPageCount : PagedRoutine(p, total)
PageRequested == \E lat \in Latencies, answer \in {"ok", "throws"} : PageRequest(lat, answer)
PageStored == \E lat \in Latencies : PageStore(lat)

NextPages ==
  /\ \/ RoutineCalled
     \/ PageRequested
     \/ PageStored
     \/ PageDelay
  /\ UNCHANGED <<lockVars, oauthVars, syncLogs, tickVars, sync, mgrVars, http, vault, rt, conn, wm, pk, cad>>

SpecPages == InitTick /\ [][NextPages]_allVars

(***************************************************************************)
(* TokenManager in detail: the envelope as text, the secret key of each    *)
(* TokenManager object.  Encrypt and Decrypt above are this model with the *)
(* iv and the text format left out.                                        *)
(***************************************************************************)
NumKeys == 2
NumIvs == 2
MaxTextLen == 2

NoKey == 0
Keys == 1..NumKeys
IVs == 1..NumIvs
TextChars == {"a", ":"}
Texts == UNION {[1..n -> TextChars] : n \in 0..MaxTextLen}

\* The length in bytes of the tag cipher.getAuthTag() returns for
\* aes-256-gcm, and the tag lengths decipher.setAuthTag() accepts when the
\* decipher was created without an authTagLength option.
GcmTagLength == 16
GcmTagLengths == {4, 8, 12, 13, 14, 15, 16}

\* Bytes, by what they were computed from; characters of a text, which are
\* a pair of hex digits standing for a byte, a colon, or another character.
NoByte == [kind |-> "none", key |-> NoKey, iv |-> 0, body |-> <<>>, n |-> 0]
IvByte(iv) == [NoByte EXCEPT !.kind = "iv", !.iv = iv]
Colon == [ch |-> ":", byte |-> NoByte]
NotHex == [ch |-> "z", byte |-> NoByte]

\* buf.toString('hex')
ToHex(bytes) == [i \in 1..Len(bytes) |-> [ch |-> "hex", byte |-> bytes[i]]]

\* Buffer.from(str, 'hex'): the bytes up to the first character that is not
\* hex.
RECURSIVE FromHex(_)
FromHex(str) ==
  IF str = <<>> \/ Head(str).ch # "hex" THEN <<>>
  ELSE <<Head(str).byte>> \o FromHex(Tail(str))

\* str.split(':')
RECURSIVE Split(_)
Split(str) ==
  IF \A i \in 1..Len(str) : str[i].ch # ":" THEN <<str>>
  ELSE LET i == CHOOSE j \in 1..Len(str) :
                  str[j].ch = ":" /\ \A k \in 1..(j - 1) : str[k].ch # ":"
       IN  <<SubSeq(str, 1, i - 1)>> \o Split(SubSeq(str, i + 1, Len(str)))

\* cipher.update(text) + cipher.final() under key and iv, byte by byte, and
\* what decipher.update + final make of a ciphertext under key and iv: the
\* character a byte was made from if key, iv and position are those it was
\* made with.
CipherText(key, iv, text) ==
  [i \in 1..Len(text) |-> [kind |-> "ct", key |-> key, iv |-> iv, body |-> <<text[i]>>, n |-> i]]
PlainText(key, iv, ct) ==
  [i \in 1..Len(ct) |-> IF ct[i].kind = "ct" /\ ct[i].key = key /\ ct[i].iv = iv /\ ct[i].n = i
                          THEN ct[i].body[1] ELSE "?"]

\* The authentication tag of the ciphertext that is text under key and iv.
AuthTag(key, iv, text) ==
  [n \in 1..GcmTagLength |-> [kind |-> "tag", key |-> key, iv |-> iv, body |-> text, n |-> n]]

\* The iv a buffer of iv bytes stands for.
IvOf(bytes) == IF Len(bytes) = 1 /\ bytes[1].kind = "iv" THEN bytes[1].iv ELSE 0

\* TokenManager.encrypt with secretKey key, `iv` being the random iv:
\* `${iv hex}:${authTag hex}:${encrypted}`.
encrypt(key, iv, text) ==
  ToHex(<<IvByte(iv)>>) \o <<Colon>> \o ToHex(AuthTag(key, iv, text)) \o <<Colon>>
    \o ToHex(CipherText(key, iv, text))

DecryptFailed == [ok |-> FALSE, text |-> <<>>, error |-> "Failed to decrypt token"]

\* decipher.setAuthTag(tag) and decipher.final(): the tag must have one of
\* the accepted lengths and equal the expected tag over that length.
GcmVerify(tag, expected) ==
  /\ Len(tag) \in GcmTagLengths
  /\ tag = SubSeq(expected, 1, Len(tag))

\* TokenManager.decrypt with secretKey key: every throw inside the try
\* block becomes 'Failed to decrypt token'.
decrypt(key, encryptedText) ==
  LET parts == Split(encryptedText)
  IN  IF Len(parts) # 3 THEN DecryptFailed
      ELSE LET iv == IvOf(FromHex(parts[1]))
               authTag == FromHex(parts[2])
               decrypted == PlainText(key, iv, FromHex(parts[3]))
           IN  IF GcmVerify(authTag, AuthTag(key, iv, decrypted))
                 THEN [ok |-> TRUE, text |-> decrypted, error |-> ""]
                 ELSE DecryptFailed

\* The secretKey of a new TokenManager: process.env.ENCRYPTION_KEY, or, when
\* it is not set, the key generateDefaultKey() draws for this object.
SecretKey(env, random) == IF env # NoKey THEN env ELSE random

\* What can happen to the envelope text while it is stored.
Alterations ==
  {[kind |-> k, n |-> GcmTagLength] : k \in {"none", "two_parts", "four_parts", "tag_byte", "tag_suffix"}}
    \cup {[kind |-> "tag_cut", n |-> n] : n \in 0..(GcmTagLength - 1)}

Join(parts) ==
  IF Len(parts) = 2 THEN parts[1] \o <<Colon>> \o parts[2]
  ELSE parts[1] \o <<Colon>> \o parts[2] \o <<Colon>> \o parts[3]

Alter(str, how) ==
  LET parts == Split(str)
  IN  CASE how.kind = "none" -> str
        [] how.kind = "two_parts" -> Join(SubSeq(parts, 1, 2))
        [] how.kind = "four_parts" -> str \o <<Colon>>
        [] how.kind = "tag_byte" ->
             Join([parts EXCEPT ![2] = [@ EXCEPT ![1] = [ch |-> "hex", byte |-> NoByte]]])
        [] how.kind = "tag_suffix" -> Join([parts EXCEPT ![2] = Append(@, NotHex)])
        [] how.kind = "tag_cut" -> Join([parts EXCEPT ![2] = SubSeq(@, 1, how.n)])

NoVault == [pc |-> "down", env |-> NoKey, managerKey |-> NoKey, connectorKey |-> NoKey,
            text |-> <<>>, how |-> [kind |-> "none", n |-> GcmTagLength],
            stored |-> <<>>, by |-> "manager", out |-> DecryptFailed]

\* The process starts with ENCRYPTION_KEY = env (NoKey: not set) and the
\* ConnectorManager constructs its TokenManager.
ManagerConstructed(env, random) ==
  /\ vault.pc = "down"
  /\ vault' = [NoVault EXCEPT !.pc = "up", !.env = env,
                              !.managerKey = SecretKey(env, random)]

\* handleOAuthCallback: the ConnectorManager's TokenManager encrypts a
\* token and the envelope is stored in the Integration row.
TokenEncrypted(text, iv) ==
  /\ vault.pc = "up"
  /\ vault' = [vault EXCEPT !.pc = "stored", !.text = text,
                            !.stored = encrypt(vault.managerKey, iv, text)]

\* The stored envelope is changed.
EnvelopeAltered(how) ==
  /\ vault.pc = "stored"
  /\ vault.how.kind = "none"
  /\ how.kind # "none"
  /\ vault' = [vault EXCEPT !.how = how, !.stored = Alter(@, how)]

\* createConnector: the BaseConnector constructor constructs its own
\* TokenManager.
ConnectorConstructed(random) ==
  /\ vault.pc = "stored"
  /\ vault' = [vault EXCEPT !.pc = "connector",
                            !.connectorKey = SecretKey(vault.env, random)]

\* The connector (getAccessToken) or the ConnectorManager decrypts the
\* stored envelope.
TokenDecrypted(by) ==
  /\ vault.pc = "connector"
  /\ vault' = [vault EXCEPT !.pc = "decrypted", !.by = by,
                            !.out = decrypt(IF by = "manager" THEN vault.managerKey
                                            ELSE vault.connectorKey, vault.stored)]

\* The process ends.
ProcessExits ==
  /\ vault.pc = "decrypted"
  /\ vault' = NoVault

ProcessStarted == \E env \in Keys \cup {NoKey}, random \in Keys : ManagerConstructed(env, random)
CallbackEncrypts == \E text \in Texts, iv \in IVs : TokenEncrypted(text, iv)
StoredEnvelopeAltered == \E how \in Alterations : EnvelopeAltered(how)
ConnectorCreated == \E random \in Keys : ConnectorConstructed(random)
EnvelopeDecrypted == \E by \in {"manager", "connector"} : TokenDecrypted(by)

NextVault ==
  /\ \/ ProcessStarted
     \/ CallbackEncrypts
     \/ StoredEnvelopeAltered
     \/ ConnectorCreated
     \/ EnvelopeDecrypted
     \/ ProcessExits
  /\ UNCHANGED <<lockVars, oauthVars, syncLogs, tickVars, sync, mgrVars, http, pg, rt, conn, wm, pk, cad>>

SpecVault == InitTick /\ [][NextVault]_allVars

(***************************************************************************)
(* The integrations routes: GET /:provider/status and POST /:provider/sync *)
(* over the Integration table, with the successful callbacks, disconnects  *)
(* and syncs that change the table.  Every write that sets updatedAt takes *)
(* its own reading of the clock.                                           *)
(***************************************************************************)
NumShops == 2
MaxRouteRows == 2
MaxRouteTime == 3

Shops == 1..NumShops

NoOp == [op |-> "none", id |-> 0]

NoResponse == [code |-> 0, connected |-> FALSE, provider |-> "", id |-> 0, status |-> "",
               shop |-> 0, lastSyncAt |-> NoTime, deletedAt |-> NoTime, text |-> ""]

\* where: { userId, provider, deletedAt: null }
LiveRows(rows, u, p) ==
  {i \in DOMAIN rows : rows[i].userId = u /\ rows[i].provider = p /\ rows[i].deletedAt = NoTime}

FindFirstOldest(rows, updatedAt, u, p) ==
  {i \in LiveRows(rows, u, p) : \A j \in LiveRows(rows, u, p) : updatedAt[i] <= updatedAt[j]}

\* findFirst with orderBy: { updatedAt: 'desc' }: the rows it may return.
FindFirstLatest(rows, updatedAt, u, p) ==
  {i \in LiveRows(rows, u, p) : \A j \in LiveRows(rows, u, p) : updatedAt[i] >= updatedAt[j]}

\* The row's metadata: the callback stores the shop the tokens belong to,
\* which is also the row's accountId.
ShopOf(row) == row.accountId

\* The answer of GET /:provider/status, found being the id findFirst
\* returned (0: null) and db whether the query threw.
StatusResponse(rows, found, p, db) ==
  IF db = "throws"
    THEN [NoResponse EXCEPT !.code = 500, !.text = "Failed to get integration status"]
  ELSE IF found = 0
    THEN [NoResponse EXCEPT !.code = 200, !.connected = FALSE, !.provider = p]
  ELSE [NoResponse EXCEPT !.code = 200,
                          !.connected = rows[found].status = "connected" /\ rows[found].deletedAt = NoTime,
                          !.id = found,
                          !.provider = rows[found].provider,
                          !.status = rows[found].status,
                          !.lastSyncAt = rows[found].lastSyncAt,
                          !.shop = ShopOf(rows[found]),
                          !.deletedAt = rows[found].deletedAt]

\* The answer of POST /:provider/sync.
SyncResponse(found, db) ==
  IF db = "throws" THEN [NoResponse EXCEPT !.code = 500, !.text = "Failed to initiate sync"]
  ELSE IF found = 0 THEN [NoResponse EXCEPT !.code = 404, !.text = "Integration not found"]
  ELSE [NoResponse EXCEPT !.code = 200, !.text = "Sync initiated"]

RouteUnchanged == UNCHANGED <<lockVars, syncLogs, tickVars, sync, mgrVars, http, pg, vault, conn, wm, pk, cad>>

\* GET /:provider/status of user u.
GetStatus(u, p, db) ==
  LET latest == FindFirstLatest(integrations, rt.updatedAt, u, p)
  IN  /\ \E found \in (IF latest = {} THEN {0} ELSE latest) :
           rt' = [rt EXCEPT !.status = StatusResponse(integrations, found, p, db)]
      /\ UNCHANGED oauthVars
      /\ RouteUnchanged

\* POST /:provider/sync of user u: the lookup, syncIntegration called and
\* not awaited, the answer.
PostSync(u, p, db) ==
  LET live == LiveRows(integrations, u, p)
  IN  /\ rt.fired = 0
      /\ \E found \in (IF live = {} THEN {0} ELSE live) :
           rt' = [rt EXCEPT !.sync = SyncResponse(found, db),
                            !.fired = IF db = "ok" THEN found ELSE 0,
                            !.outcome = "none"]
      /\ UNCHANGED oauthVars
      /\ RouteUnchanged

\* The syncIntegration call of the last POST settles: rejected (the row is
\* not connected), returned (sync() wrote connected and lastSyncAt) or raised
\* (status error).
SyncSettles(outcome) ==
  /\ rt.fired # 0
  /\ now < MaxRouteTime
  /\ (outcome = "rejected") = (integrations[rt.fired].status # "connected")
  /\ now' = IF outcome = "rejected" THEN now ELSE now + 1
  /\ integrations' =
       IF outcome = "rejected" THEN integrations
       ELSE [integrations EXCEPT ![rt.fired] =
               SyncedRow(@, IF outcome = "returned" THEN "synced" ELSE "sync_error", now')]
  /\ rt' = [rt EXCEPT !.fired = 0, !.outcome = outcome,
                      !.updatedAt = IF outcome = "rejected" THEN @ ELSE [@ EXCEPT ![rt.fired] = now'],
                      !.last = IF outcome = "rejected" THEN @ ELSE [op |-> "sync", id |-> rt.fired]]
  /\ UNCHANGED <<oauthStates, nextState, nextToken, cb, upserts, consumed, lastDone, rejected>>
  /\ RouteUnchanged

\* A callback of user u for shop a of provider p succeeds: its upsert.
CallbackSucceeds(u, p, a) ==
  LET k == <<u, p, a>>
      rows == UpsertIntegration(integrations, k, [access |-> 1, refresh |-> 0, expiresAt |-> NoTime])
      id == CHOOSE i \in DOMAIN rows : RowKey(rows[i]) = k
  IN  /\ now < MaxRouteTime
      /\ RowsWithKey(integrations, k) # {} \/ Len(integrations) < MaxRouteRows
      /\ now' = now + 1
      /\ integrations' = rows
      /\ rt' = [rt EXCEPT !.updatedAt = [i \in DOMAIN rows |-> IF i = id THEN now' ELSE @[i]],
                          !.last = [op |-> "callback", id |-> id]]
      /\ UNCHANGED <<oauthStates, nextState, nextToken, cb, upserts, consumed, lastDone, rejected>>
      /\ RouteUnchanged

\* DELETE /:provider/disconnect of the owner of row id; whether the update
\* touches updatedAt is the schema's matter.
RouteDisconnect(id, touch) ==
  /\ id \in DOMAIN integrations
  /\ integrations[id].deletedAt = NoTime
  /\ DisconnectIntegration(id)
  /\ rt' = [rt EXCEPT !.updatedAt = IF touch THEN [@ EXCEPT ![id] = now] ELSE @,
                      !.last = [op |-> "disconnect", id |-> id]]
  /\ UNCHANGED <<lockVars, tickVars, sync, mgrVars, http, pg, vault, conn, wm, pk, cad>>

StatusAsked == \E u \in Users, p \in Providers, db \in {"ok", "throws"} : GetStatus(u, p, db)
SyncAsked == \E u \in Users, p \in Providers, db \in {"ok", "throws"} : PostSync(u, p, db)
SyncSettled == \E outcome \in {"rejected", "returned", "raised"} : SyncSettles(outcome)
CallbackSucceeded == \E u \in Users, p \in Providers, a \in Shops : CallbackSucceeds(u, p, a)
DisconnectAsked == \E id \in 1..MaxRouteRows, touch \in BOOLEAN : RouteDisconnect(id, touch)

NextRoutes ==
  \/ StatusAsked
  \/ SyncAsked
  \/ SyncSettled
  \/ CallbackSucceeded
  \/ DisconnectAsked

SpecRoutes == InitOAuth /\ [][NextRoutes]_allVars

(***************************************************************************)
(* POST /:provider/connect and initiateOAuth, with the provider            *)
(* credentials of the environment.                                         *)
(***************************************************************************)
MaxConnects == 3

Undefined == "undefined"

NoUrl == [authUrl |-> "", client_id |-> "", state |-> 0]

NoConnect == [code |-> 0, url |-> NoUrl, state |-> 0, provider |-> "", text |-> ""]

\* getOAuthConfig().clientId: process.env.<PROVIDER>_CLIENT_ID, which is
\* undefined when the variable is not set.
ClientId(env, p) == IF env[p] THEN p ELSE Undefined

\* new URLSearchParams({ client_id, ..., state }) and toString(): a value
\* that is not a string is converted to one, undefined to 'undefined'.
GetAuthorizationUrl(env, p, state) ==
  [authUrl |-> p, client_id |-> ClientId(env, p), state |-> state]

\* The process starts with the client id and secret of the providers for
\* which env is TRUE.
ProcessConfigured(env) ==
  /\ conn.pc = "down"
  /\ conn' = [conn EXCEPT !.pc = "up", !.env = env]
  /\ UNCHANGED oauthVars

\* POST /:provider/connect of user u: initiateOAuth builds the temporary
\* connector, generates the state, builds the authorization URL and stores
\* the state; the route answers with the URL, or with 500 when
\* initiateOAuth threw (Shopify's getOAuthConfig without a shop domain in
\* the metadata; storeOAuthState with db = "throws").
Connect(u, p, shopDomain, db) ==
  /\ conn.pc = "up"
  /\ nextState < MaxConnects
  /\ IF (p = "shopify" /\ ~shopDomain) \/ db = "throws"
       THEN /\ conn' = [conn EXCEPT !.resp = [NoConnect EXCEPT !.code = 500,
                                                           !.text = "Failed to initiate OAuth flow"]]
            /\ UNCHANGED oauthVars
       ELSE /\ nextState' = nextState + 1
            /\ oauthStates' = StoreOAuthState(oauthStates, nextState', u, p, now)
            /\ conn' = [conn EXCEPT !.resp = [NoConnect EXCEPT !.code = 200,
                                                           !.url = GetAuthorizationUrl(conn.env, p, nextState'),
                                                           !.state = nextState',
                                                           !.provider = p]]
            /\ UNCHANGED <<now, integrations, nextToken, cb, upserts, consumed, lastDone, rejected>>

\* The process stops; the OAuth state rows stay in the database.
ProcessStops ==
  /\ conn.pc = "up"
  /\ conn' = [conn EXCEPT !.pc = "down"]
  /\ UNCHANGED oauthVars

ProcessStartsConfigured == \E env \in [Providers -> BOOLEAN] : ProcessConfigured(env)
ConnectAsked ==
  \E u \in Users, p \in Providers, shopDomain \in BOOLEAN, db \in {"ok", "throws"} :
    Connect(u, p, shopDomain, db)

NextConnect ==
  /\ \/ ProcessStartsConfigured
     \/ ConnectAsked
     \/ ProcessStops
  /\ UNCHANGED <<lockVars, syncLogs, tickVars, sync, mgrVars, http, pg, vault, rt, wm, pk, cad>>

SpecConnect == InitOAuth /\ [][NextConnect]_allVars

(***************************************************************************)
(* The incremental watermark: logSync rows with their completion time and  *)
(* getLastSyncTime as syncOrders and syncEvents call it.                   *)
(***************************************************************************)
MaxLogRows == 3
MaxLogTime == 2

WatermarkTypes == {"orders", "events"}
LogOwners == 1..2

NoRead == [id |-> 0, dataType |-> "", value |-> NoTime, at |-> 0]

\* where: { integrationId, dataType, status: 'success' }
SuccessRows(logs, id, dt) ==
  {r \in logs : r.integrationId = id /\ r.dataType = dt /\ r.status = "success"}

AnyRows(logs, id, dt) ==
  {r \in logs : r.integrationId = id /\ r.dataType = dt}

GetLastSyncTimeAnyStatus(logs, id, dt) ==
  IF AnyRows(logs, id, dt) = {} THEN NoTime
  ELSE (CHOOSE r \in AnyRows(logs, id, dt) :
          \A x \in AnyRows(logs, id, dt) : r.completedAt >= x.completedAt).completedAt

\* getLastSyncTime(dataType) of the connector of integration id: findFirst
\* with orderBy completedAt desc, then `log?.completedAt || null`.
GetLastSyncTime(logs, id, dt) ==
  IF SuccessRows(logs, id, dt) = {} THEN NoTime
  ELSE (CHOOSE r \in SuccessRows(logs, id, dt) :
          \A x \in SuccessRows(logs, id, dt) : r.completedAt >= x.completedAt).completedAt

\* logSync(result): a row with completedAt: new Date().
LogSyncRow(id, dt, status) ==
  /\ Cardinality(wm.logs) < MaxLogRows
  /\ wm' = [wm EXCEPT !.logs = @ \cup {[integrationId |-> id, dataType |-> dt, status |-> status,
                                        completedAt |-> wm.clock]}]

\* Time passes.
LogClockTicks ==
  /\ wm.clock < MaxLogTime
  /\ wm' = [wm EXCEPT !.clock = @ + 1]

\* The routine for data type dt of integration id starts: `const lastSync =
\* await this.getLastSyncTime(dt)`, which the routine turns into the filter
\* of its requests when it is not null.
RoutineReadsWatermark(id, dt) ==
  wm' = [wm EXCEPT !.read = [id |-> id, dataType |-> dt,
                             value |-> GetLastSyncTime(wm.logs, id, dt), at |-> wm.clock]]

RowLogged == \E id \in LogOwners, dt \in WatermarkTypes, status \in {"success", "error"} :
  LogSyncRow(id, dt, status)
WatermarkRead == \E id \in LogOwners, dt \in WatermarkTypes : RoutineReadsWatermark(id, dt)

NextWatermark ==
  /\ \/ RowLogged
     \/ LogClockTicks
     \/ WatermarkRead
  /\ UNCHANGED <<lockVars, oauthVars, syncLogs, tickVars, sync, mgrVars, http, pg, vault, rt, conn, pk, cad>>

SpecWatermark == InitTick /\ [][NextWatermark]_allVars

(***************************************************************************)
(* initiateOAuth and handleOAuthCallback with the PKCE code verifier.      *)
(***************************************************************************)
MaxFlows == 3
NumVerifiers == 2

\* The values crypto.randomBytes(32).toString('base64url') may take.
Verifiers == {ToString(n) : n \in 1..NumVerifiers}

\* getOAuthConfig().pkceRequired: true in Klaviyo's configuration, not a
\* property of Shopify's.
PkceRequired(p) == p = "klaviyo"

\* initiateOAuth: generateCodeVerifier() only if pkceRequired, otherwise
\* codeVerifier stays undefined.
CodeVerifier(p, random) == IF PkceRequired(p) THEN random ELSE Undefined

\* generateCodeChallenge: the base64url SHA-256 digest of the verifier.
GenerateCodeChallenge(codeVerifier) == "sha256:" \o codeVerifier

\* getAuthorizationUrl: the two PKCE parameters are appended if
\* `config.pkceRequired && codeVerifier`.
PkceParams(p, codeVerifier) ==
  IF PkceRequired(p) /\ codeVerifier # Undefined
    THEN [code_challenge |-> GenerateCodeChallenge(codeVerifier), code_challenge_method |-> "S256"]
    ELSE [code_challenge |-> Undefined, code_challenge_method |-> Undefined]

JsonStringifyNoVerifier(data) == [k \in DOMAIN data \ {"codeVerifier"} |-> data[k]]

\* JSON.stringify(stateData): a property whose value is undefined is left out.
JsonStringify(data) == [k \in {x \in DOMAIN data : data[x] # Undefined} |-> data[k]]

\* JSON.parse(oauthState.data).<k>: a property that is not there reads as
\* undefined.
JsonField(str, k) == IF k \in DOMAIN str THEN str[k] ELSE Undefined

NoExchange == [state |-> 0, provider |-> "", codeVerifier |-> Undefined]

\* initiateOAuth(p, u): state, verifier, authorization URL, storeOAuthState.
\* `made` and `urls` remember the verifier generated and the URL returned for
\* each state.
PkceInitiate(u, p, random) ==
  /\ pk.n < MaxFlows
  /\ LET state == pk.n + 1
         codeVerifier == CodeVerifier(p, random)
         stateData == [userId |-> ToString(u), provider |-> p, codeVerifier |-> codeVerifier]
         url == [provider |-> p, state |-> state, pkce |-> PkceParams(p, codeVerifier)]
     IN  pk' = [pk EXCEPT !.n = state,
                          !.rows = [s \in DOMAIN @ \cup {state} |->
                                      IF s = state THEN JsonStringify(stateData) ELSE @[s]],
                          !.urls = [s \in DOMAIN @ \cup {state} |-> IF s = state THEN url ELSE @[s]],
                          !.made = [s \in DOMAIN @ \cup {state} |->
                                      IF s = state THEN codeVerifier ELSE @[s]]]

\* handleOAuthCallback(p, code, s): validateOAuthState parses the row of s,
\* exchangeCodeForTokens is called with its codeVerifier, and the row is
\* deleted when the Integration was persisted.
PkceCallback(p, s, outcome) ==
  /\ s \in DOMAIN pk.rows
  /\ pk' = [pk EXCEPT !.exchange = [state |-> s, provider |-> p,
                                    codeVerifier |-> JsonField(pk.rows[s], "codeVerifier")],
                      !.rows = IF outcome = "persisted"
                                 THEN [x \in DOMAIN @ \ {s} |-> @[x]]
                                 ELSE @]

FlowInitiated == \E u \in Users, p \in Providers, random \in Verifiers : PkceInitiate(u, p, random)
FlowCallback ==
  \E p \in Providers, s \in 1..MaxFlows, outcome \in {"persisted", "failed"} :
    PkceCallback(p, s, outcome)

NextPkce ==
  /\ \/ FlowInitiated
     \/ FlowCallback
  /\ UNCHANGED <<lockVars, oauthVars, syncLogs, tickVars, sync, mgrVars, http, pg, vault, rt, conn, wm, cad>>

SpecPkce == InitTick /\ [][NextPkce]_allVars

(***************************************************************************)
(* The hourly cadence of one integration that stays connected: when the    *)
(* tick's findMany runs, and when the sync it starts finishes.             *)
(***************************************************************************)
MaxHours == 4
MaxJitter == 2
MaxDuration == 2

\* Minutes between the full hour and the batch's findMany, and between the
\* findMany and the end of the integration's sync().
Jitters == 0..MaxJitter
Durations == 0..MaxDuration

\* The scheduler callback of the hour up to the findMany, at `jitter`
\* minutes past the hour: the integration is in the batch or it is not.
CadenceTick(jitter) ==
  /\ cad.stage = "wait"
  /\ LET t == cad.hour * TickPeriod + jitter
     IN  IF 1 \in Eligible(<<cad.row>>, t)
           THEN cad' = [cad EXCEPT !.stage = "sync", !.queryAt = t]
           ELSE cad' = [cad EXCEPT !.stage = "over", !.queryAt = t,
                                   !.hist = Append(@, "not_selected")]

\* The batch's syncIntegration: sync() ends `duration` minutes after the
\* findMany with updateIntegrationStatus('connected', new Date()).
CadenceSynced(duration) ==
  /\ cad.stage = "sync"
  /\ cad' = [cad EXCEPT !.stage = "over",
                        !.row = SyncedRow(@, "synced", cad.queryAt + duration),
                        !.hist = Append(@, "synced")]

\* The next full hour.
CadenceNextHour ==
  /\ cad.stage = "over"
  /\ cad.hour + 1 < MaxHours
  /\ cad' = [cad EXCEPT !.stage = "wait", !.hour = @ + 1]

HourlyTick == \E jitter \in Jitters : CadenceTick(jitter)
HourlySyncEnds == \E duration \in Durations : CadenceSynced(duration)

NextCadence ==
  /\ \/ HourlyTick
     \/ HourlySyncEnds
     \/ CadenceNextHour
  /\ UNCHANGED <<lockVars, oauthVars, syncLogs, tickVars, sync, mgrVars, http, pg, vault, rt, conn, wm, pk>>

SpecCadence == InitTick /\ [][NextCadence]_allVars

(***************************************************************************)
(* Specifications of the lock helper alone.                                *)
(***************************************************************************)

NextLock ==
  /\ WithAdvisoryLockCall \/ FnReturns \/ FnThrows \/ ReleaseLock
  /\ UNCHANGED <<oauthVars, syncLogs, tickVars, sync, mgrVars, http, restVars>>

SpecLock == InitOAuth /\ [][NextLock]_allVars

NextLockFaulty ==
  /\ \/ WithAdvisoryLockCall
     \/ FnReturns
     \/ FnThrows
     \/ ReleaseLock
     \/ AcquireQueryFails
     \/ ReleaseQueryFails
  /\ UNCHANGED <<oauthVars, syncLogs, tickVars, sync, mgrVars, http, restVars>>

SpecLockFaulty == InitOAuth /\ [][NextLockFaulty]_allVars

Spec == SpecOAuth

(***************************************************************************)
(* Claims about the lock helper.                                           *)
(***************************************************************************)

Believes(c) == pc[c] \in {"fn", "finally"}

\* C1: at no time are two executions of fn for the same lock name in
\* progress, whether the overlapping withAdvisoryLock calls come from two
\* process instances or from one.
C1_FnNeverOverlaps ==
  \A c, d \in Calls : (pc[c] = "fn" /\ pc[d] = "fn") => c = d

\* C8: once a withAdvisoryLock call that acquired the lock has returned or
\* thrown and no other call is in flight, the lock is not held: a
\* tryAcquireLock by any session of any instance would be granted.
C8_ReleasedAfterReturn ==
  (lastStep.op = "release" /\ \A c \in Calls : pc[c] = "idle")
    => \A s \in Sessions : PgLockGranted(advLocks, s)

\* C9: a failed acquire query makes withAdvisoryLock return undefined without
\* running fn (a call runs fn only while a session of its instance holds the
\* lock); a failed release query is swallowed and the call still returns what
\* fn produced; and no two instances ever both believe they hold the lock.
C9_FailuresAreConservative ==
  /\ (lastStep.op = "acquire" /\ lastStep.query # "ok") => lastStep.value = "undefined"
  /\ \A c \in Calls : Believes(c) => \E k \in Conns : advLocks[<<InstOf(c), k>>] > 0
  /\ lastStep.op = "release" => lastStep.value = lastStep.fnres
  /\ \A c, d \in Calls : (Believes(c) /\ Believes(d)) => InstOf(c) = InstOf(d)

\* C9 witness: a release query failed, the call still returned fn's result,
\* and the lock it could not release is still held in the store.
C9_Witness ==
  /\ lastStep.op = "release"
  /\ lastStep.query = "error"
  /\ lastStep.value = "result"
  /\ \E s \in Sessions : advLocks[s] > 0

(***************************************************************************)
(* Claims about the OAuth callback and the Integration table.              *)
(***************************************************************************)

InFlight(c) == cb[c].pc # "idle"

Exchanged(c) == cb[c].pc \in {"upsert", "cleanup"}

C4_AtMostOneExchange ==
  \A c, d \in Callers :
    (c # d /\ Exchanged(c) /\ Exchanged(d)) => cb[c].state # cb[d].state

\* C5: a callback whose state has no row, or whose row has expired, is
\* rejected by a step that changes no Integration row and starts no token
\* exchange; every call that goes on to the exchange saw a live state row.
C5_InvalidStateRejected ==
  [][/\ \A c \in Callers :
          (cb[c].pc = "idle" /\ cb'[c].pc # "idle")
            => StateRow(oauthStates, cb'[c].state, now) = "valid"
     /\ rejected' # rejected
          => (integrations' = integrations /\ nextToken' = nextToken /\ cb' = cb)
     /\ \A c \in Callers : InFlight(c) => cb[c].seen = "valid"]_allVars

\* C5 witness: a callback has been rejected because its state row had
\* expired, and no Integration row exists.
C5_Witness ==
  /\ rejected.seen = "expired"
  /\ ~rejected.late
  /\ integrations = <<>>

\* C6: at most one Integration row with a null deletedAt per
\* (userId, provider, accountId).
C6_OneLiveRowPerKey ==
  \A i, j \in DOMAIN integrations :
    (RowKey(integrations[i]) = RowKey(integrations[j])
       /\ integrations[i].deletedAt = NoTime
       /\ integrations[j].deletedAt = NoTime) => i = j

\* C6 witness: two callbacks with different states completed on the same
\* key, the row having been disconnected in between, and there is one row.
C6_Witness ==
  /\ Cardinality(consumed) = 2
  /\ Len(integrations) = 1
  /\ integrations[1].deletedAt = NoTime
  /\ integrations[1].status = "connected"
  /\ integrations[1].accessToken = Encrypt(EncryptionKey, 2)
  /\ integrations[1].provider = "shopify"

\* Every token exchange so far belongs to a callback that has completed, and
\* each of these callbacks had a state of its own.
OwnStates == Cardinality(consumed) = nextToken

TickOver ==
  /\ \A i \in Instances : fired[i] > CurrentTick
  /\ \A c \in Calls : pc[c] = "idle"

SyncingInstances(t) ==
  {i \in Instances : \E id \in DOMAIN integrations : <<i, t, id>> \in syncCalls}

\* C2: the SyncLog rows a tick produces for an integration and data type
\* come from one instance only; and once the tick's callbacks have returned
\* on both instances, exactly one instance has run the batch on the
\* integrations that were eligible.
C2_ExactlyOneInstanceSyncs ==
  /\ \A r1, r2 \in syncLogs :
       (r1.integrationId = r2.integrationId /\ r1.dataType = r2.dataType
          /\ r1.run[2] = r2.run[2]) => r1.run[1] = r2.run[1]
  /\ (TickOver /\ due # {}) => Cardinality(SyncingInstances(CurrentTick)) = 1

(***************************************************************************)
(* Claims about ShopifyConnector.sync().                                   *)
(***************************************************************************)

Threw(dt) == \E x \in sync.threw : x[1] = dt

RunLog(dt, status) ==
  [integrationId |-> SyncTarget, dataType |-> dt, status |-> status, run |-> <<0, sync.run>>]

\* C10: as long as the database writes themselves succeed, a routine whose
\* page request threw gets an error result and an error SyncLog row, every
\* other routine that has run gets a success result and a success row, the
\* invocation does not set the Integration status to error, and it goes
\* through every routine and ends with the status connected.
C10_FailureIsolated ==
  ~sync.dbFailed =>
    /\ \A n \in DOMAIN sync.results :
         LET r == sync.results[n]
         IN  r.dataType # "sync_error" =>
               /\ r.status = (IF Threw(r.dataType) THEN "error" ELSE "success")
               /\ RunLog(r.dataType, r.status) \in syncLogs
               /\ RunLog(r.dataType, IF Threw(r.dataType) THEN "success" ELSE "error") \notin syncLogs
    /\ sync.threw # {} => "error" \notin sync.wrote
    /\ (sync.pc = "idle" /\ sync.run > 0 /\ "error" \notin sync.wrote)
         => /\ [n \in DOMAIN sync.results |-> sync.results[n].dataType] = DataTypes("shopify")
            /\ integrations[SyncTarget].status = "connected"
            /\ integrations[SyncTarget].lastSyncAt = now

\* C10 witness: the products request threw on its second page; the
\* invocation is over with orders and customers logged as success, products
\* as error, and the integration connected.
C10_Witness ==
  /\ sync.pc = "idle"
  /\ sync.threw = {<<"products", 1>>}
  /\ ~sync.dbFailed
  /\ sync.results = <<[dataType |-> "orders", status |-> "success"],
                      [dataType |-> "products", status |-> "error"],
                      [dataType |-> "customers", status |-> "success"]>>
  /\ {RunLog("orders", "success"), RunLog("products", "error"), RunLog("customers", "success")}
       \subseteq syncLogs
  /\ integrations[SyncTarget].status = "connected"

\* C11: sync() never throws to its caller; when its catch block has run, the
\* Integration status is error and the returned list holds one sync_error
\* result, the last one.
C11_SyncNeverThrows ==
  /\ sync.pc # "thrown"
  /\ (sync.pc = "idle" /\ "error" \in sync.wrote)
       => /\ integrations[SyncTarget].status = "error"
          /\ Cardinality({n \in DOMAIN sync.results : sync.results[n].dataType = "sync_error"}) = 1
          /\ sync.results[Len(sync.results)].dataType = "sync_error"

(***************************************************************************)
(* Claims about the manager's sync operations.                             *)
(***************************************************************************)

\* C12: a syncIntegration call that finds its Integration missing or not
\* connected raises without having called validateConnection or sync() and
\* leaves the Integration and SyncLog tables as they were; a call whose
\* validateConnection() answered false has set the status to error, goes on
\* to raise with the status error, and never calls sync().
C12_RejectsBeforeSync ==
  [][\A s \in Slots :
       /\ (/\ si[s].pc = "called"
           /\ si'[s].pc # "called"
           /\ (s[2] \notin DOMAIN integrations \/ integrations[s[2]].status # "connected"))
            => /\ si'[s].pc = "raised"
               /\ si'[s].did = {}
               /\ integrations' = integrations
               /\ syncLogs' = syncLogs
       /\ "invalid" \in si'[s].did
            => /\ si'[s].pc \in {"catch", "raised"}
               /\ "sync" \notin si'[s].did
               /\ si'[s] # si[s] => integrations'[s[2]].status = "error"]_allVars

C12_Witness ==
  /\ si[<<ManualRun, 1>>].pc = "raised"
  /\ si[<<ManualRun, 1>>].did = {}
  /\ si[<<ManualRun, 2>>].pc = "raised"
  /\ "invalid" \in si[<<ManualRun, 2>>].did

\* C13: syncUserIntegrations(u) calls syncIntegration for exactly the
\* connected, not soft-deleted integrations of u; it never raises, none of
\* the calls it started is dropped while it waits, and it returns only when
\* every one of them has returned or raised.
C13_PartialFailure ==
  [][/\ (us.pc # "waiting" /\ us'.pc = "waiting")
          => /\ \E u \in Users : us'.started = UserIntegrations(integrations, u)
             /\ \A id \in us'.started : si'[<<ManualRun, id>>].pc = "called"
     /\ us'.pc # "raised"
     /\ us'.pc = "waiting"
          => \A id \in us'.started : Running(si'[<<ManualRun, id>>]) \/ Finished(si'[<<ManualRun, id>>])
     /\ (us.pc = "waiting" /\ us'.pc # "waiting")
          => /\ us'.pc = "done"
             /\ \A id \in us.started : Finished(si[<<ManualRun, id>>])]_allVars

C13_Witness ==
  /\ us.pc = "done"
  /\ us.started = {1, 2}
  /\ si[<<ManualRun, 1>>].pc = "raised"
  /\ si[<<ManualRun, 2>>].pc = "done"
  /\ "sync" \in si[<<ManualRun, 2>>].did

KeptFields == {"userId", "provider", "accountId", "accessToken", "refreshToken",
               "expiresAt", "lastSyncAt"}

\* C15: a disconnectIntegration(id) step sets the row's status to
\* disconnected and its deletedAt to non-null, removes no row and changes
\* nothing else in the Integration and SyncLog tables; from then on the row
\* is outside the scheduler's findMany and every syncIntegration(id) that
\* loads it raises.
C15_DisconnectedStaysOut ==
  [][\A id \in DOMAIN integrations :
       /\ Disconnects(id)
            => /\ integrations'[id].status = "disconnected"
               /\ integrations'[id].deletedAt # NoTime
               /\ DOMAIN integrations' = DOMAIN integrations
               /\ \A f \in KeptFields : integrations'[id][f] = integrations[id][f]
               /\ \A j \in DOMAIN integrations \ {id} : integrations'[j] = integrations[j]
               /\ syncLogs' = syncLogs
       /\ integrations'[id].deletedAt # NoTime => id \notin Eligible(integrations', now')
       /\ \A o \in Origins :
            (/\ si[<<o, id>>].pc = "called"
             /\ si'[<<o, id>>].pc # "called"
             /\ integrations[id].deletedAt # NoTime)
              => si'[<<o, id>>].pc = "raised"]_allVars

\* C18: a syncIntegration call during which handleTokenRefresh failed leaves
\* the status expired when it has returned or raised, and an expired status
\* stays (no handleOAuthCallback runs in this specification; a disconnect
\* is left aside).
C18_RefreshFailureExpires ==
  [][\A s \in Slots :
       /\ (~Finished(si[s]) /\ Finished(si'[s]) /\ "refresh_failed" \in si'[s].did)
            => integrations'[s[2]].status = "expired"
       /\ (/\ Finished(si[s])
           /\ "refresh_failed" \in si[s].did
           /\ integrations[s[2]].status = "expired"
           /\ ~Disconnects(s[2]))
            => integrations'[s[2]].status = "expired"]_allVars

(***************************************************************************)
(* Claims about the Integration lifecycle.                                 *)
(***************************************************************************)

\* C16: the upsert of a successful handleOAuthCallback returns the existing
\* row of its (userId, provider, accountId), whatever its status, to status
\* connected with deletedAt null, as the same row; and a row whose status is
\* disconnected becomes connected in no step other than such an upsert.
C16_OnlyReconnectRevives ==
  [][/\ \A c \in Callers :
          CallbackUpsert(c)
            => \A i \in DOMAIN integrations :
                 RowKey(integrations[i]) = CbKey(cb[c])
                   => /\ Len(integrations') = Len(integrations)
                      /\ RowKey(integrations'[i]) = CbKey(cb[c])
                      /\ integrations'[i].status = "connected"
                      /\ integrations'[i].deletedAt = NoTime
     /\ \A i \in DOMAIN integrations :
          (integrations[i].status = "disconnected" /\ integrations'[i].status = "connected")
            => \E c \in Callers : CallbackUpsert(c) /\ CbKey(cb[c]) = RowKey(integrations[i])]_allVars

(***************************************************************************)
(* Claims about a connector's provider requests.                           *)
(***************************************************************************)

\* C17: one request leads to at most one token refresh and is sent at most
\* twice; when the request sent again is answered 401 as well, it is
\* rejected with no further refresh.
C17_OneRefreshOneRetry ==
  /\ Count(http.log, "refresh") + Count(http.log, "refresh_failed") <= 1
  /\ Count(http.log, "send") <= 2
  /\ (Count(http.log, "send") = 2 /\ http.log[Len(http.log)] = "401") => http.pc = "rejected"

\* C19: a request that was answered 429 is rejected only after a wait and
\* one more sending of the same request.
C19_RateLimitRetried ==
  (http.pc = "rejected" /\ Count(http.log, "429") > 0)
    => LET n == CHOOSE k \in DOMAIN http.log :
                  http.log[k] = "429" /\ \A j \in 1..(k - 1) : http.log[j] # "429"
       IN  /\ n + 2 <= Len(http.log)
           /\ http.log[n + 1] = "wait"
           /\ http.log[n + 2] = "send"

(***************************************************************************)
(* Claims about pagination.                                                *)
(***************************************************************************)

\* C20: a data-type routine that has entered its pagination loop leaves it,
\* whatever pages the provider goes on announcing.
C20_PaginationTerminates ==
  \A dt \in {"orders", "products"} : (sync.pc = dt) ~> (sync.pc # dt)

(***************************************************************************)
(* Claims about the SyncLog rows of an invocation.                         *)
(***************************************************************************)

\* The SyncLog rows invocation number run of sync() wrote for data type dt.
RowsOf(run, dt) ==
  {r \in syncLogs : r.integrationId = SyncTarget /\ r.run = <<0, run>> /\ r.dataType = dt}

\* C21: no invocation of sync() writes two SyncLog rows for one data type;
\* every routine that has returned its result, whether its loop ran to the
\* last page or threw at some page, has written exactly one row for its data
\* type, with the status of the result; and an invocation that ended without
\* reaching sync()'s catch block has written exactly one row for each data
\* type of the provider and for nothing else.
C21_OneRowPerRoutine ==
  /\ \A run \in 1..MaxSyncs, dt \in {"orders", "products", "customers", "sync_error"} :
       Cardinality(RowsOf(run, dt)) <= 1
  /\ \A n \in DOMAIN sync.results :
       LET r == sync.results[n]
       IN  r.dataType # "sync_error" => RowsOf(sync.run, r.dataType) = {RunLog(r.dataType, r.status)}
  /\ (sync.pc = "idle" /\ sync.run > 0 /\ "error" \notin sync.wrote) =>
       /\ \A dt \in {"orders", "products", "customers"} : Cardinality(RowsOf(sync.run, dt)) = 1
       /\ RowsOf(sync.run, "sync_error") = {}

\* C21 witness: the orders request threw on its first page and the other
\* routines ran to their end; the invocation is over and has written three
\* rows, the error row of orders and the success rows of products and
\* customers.
C21_Witness ==
  /\ sync.pc = "idle"
  /\ sync.run = 1
  /\ sync.threw = {<<"orders", 0>>}
  /\ "error" \notin sync.wrote
  /\ RowsOf(1, "orders") = {RunLog("orders", "error")}
  /\ RowsOf(1, "products") = {RunLog("products", "success")}
  /\ RowsOf(1, "customers") = {RunLog("customers", "success")}
  /\ Cardinality({r \in syncLogs : r.run = <<0, 1>>}) = 3

(***************************************************************************)
(* Claims about the pace of pagination.                                    *)
(***************************************************************************)

\* C22: a routine never issues more page requests than the provider holds
\* pages; one that ended with the success result, every page having been
\* answered, issued exactly one request per page; and any two consecutive
\* page requests of a routine are at least the connector's rateLimitDelay
\* apart, 500 ms for Shopify and 100 ms for Klaviyo.
C22_PagesAndDelays ==
  /\ Len(pg.times) <= pg.total
  /\ (pg.pc = "done" /\ pg.status = "success") => Len(pg.times) = pg.total
  /\ \A n \in 1..(Len(pg.times) - 1) :
       pg.times[n + 1] - pg.times[n] >= (IF pg.provider = "shopify" THEN 500 ELSE 100)

\* C22 witness: a Klaviyo routine over three pages has ended with the
\* success result after three requests, the second 100 ms after the first.
C22_Witness ==
  /\ pg.pc = "done"
  /\ pg.status = "success"
  /\ pg.provider = "klaviyo"
  /\ pg.total = 3
  /\ Len(pg.times) = 3
  /\ pg.times[2] - pg.times[1] = 100

(***************************************************************************)
(* Claims about the token vault.                                           *)
(***************************************************************************)

\* The key the envelope is being opened with.
OpeningKey == IF vault.by = "manager" THEN vault.managerKey ELSE vault.connectorKey

\* C23: decrypting, under the key it was encrypted with, an envelope that
\* was not altered returns the text that was encrypted; decrypting an
\* envelope that does not split into exactly three parts at ':', or whose
\* auth tag part was altered, or under another key than it was encrypted
\* with, fails and returns no text.
C23_RoundTripOrError ==
  vault.pc = "decrypted" =>
    /\ (vault.how.kind = "none" /\ OpeningKey = vault.managerKey)
         => vault.out = [ok |-> TRUE, text |-> vault.text, error |-> ""]
    /\ (\/ Len(Split(vault.stored)) # 3
        \/ vault.how.kind \in {"tag_byte", "tag_suffix", "tag_cut"}
        \/ OpeningKey # vault.managerKey)
         => vault.out = DecryptFailed

\* C24: when ENCRYPTION_KEY is not set, the TokenManager of a connector
\* created later in the process decrypts the envelope the ConnectorManager
\* encrypted to the text that was encrypted.
C24_SessionKeyShared ==
  (vault.pc = "decrypted" /\ vault.env = NoKey /\ vault.by = "connector" /\ vault.how.kind = "none")
    => vault.out = [ok |-> TRUE, text |-> vault.text, error |-> ""]

(***************************************************************************)
(* Claims about the integrations routes.                                   *)
(***************************************************************************)

\* C25: POST /:provider/sync answers with the acknowledgement, the same
\* answer whatever the state of the user's integration for the provider and
\* however the call it started ends.
C25_AlwaysAcknowledged ==
  rt.sync.code # 0 => rt.sync = [NoResponse EXCEPT !.code = 200, !.text = "Sync initiated"]

\* C27: a GET /:provider/status whose lookup succeeded answers 200; when the
\* user has no row for the provider with deletedAt null, the answer is
\* connected false with the provider name and nothing else; otherwise it
\* describes one of those rows and connected is true exactly when that row
\* has status connected and no deletedAt; and when the last change of the
\* table was a successful callback of this user for a shop of this
\* provider, the answer is connected true with that shop.
C27_StatusAnswers ==
  [][\A u \in Users, p \in Providers :
       GetStatus(u, p, "ok") =>
         LET live == LiveRows(integrations, u, p)
             r == rt'.status
         IN  /\ r.code = 200
             /\ live = {} => r = [NoResponse EXCEPT !.code = 200, !.provider = p]
             /\ live # {} =>
                  /\ r.id \in live
                  /\ r.provider = p
                  /\ r.connected = (integrations[r.id].status = "connected"
                                      /\ integrations[r.id].deletedAt = NoTime)
             /\ (/\ rt.last.op = "callback"
                 /\ integrations[rt.last.id].userId = u
                 /\ integrations[rt.last.id].provider = p)
                  => /\ r.connected
                     /\ r.id = rt.last.id
                     /\ r.shop = integrations[rt.last.id].accountId]_allVars

\* C27 witness: the user connected shop 1 and then shop 2 of Shopify, both
\* rows are live, and the status route has answered connected true with
\* shop 2.
C27_Witness ==
  /\ Len(integrations) = 2
  /\ \A i \in 1..2 : integrations[i].provider = "shopify" /\ integrations[i].deletedAt = NoTime
                      /\ integrations[i].accountId = i
  /\ rt.last = [op |-> "callback", id |-> 2]
  /\ rt.status.code = 200
  /\ rt.status.connected
  /\ rt.status.id = 2
  /\ rt.status.shop = 2

\* C26: a connect request for a provider whose client id and secret are
\* not configured is answered with an error, without an authorization URL,
\* and stores no OAuth state row.
C26_UnconfiguredConnectFails ==
  [][\A u \in Users, p \in Providers, shopDomain \in BOOLEAN, db \in {"ok", "throws"} :
       (Connect(u, p, shopDomain, db) /\ ~conn.env[p]) =>
         /\ conn'.resp.code # 200
         /\ conn'.resp.url = NoUrl
         /\ oauthStates' = oauthStates]_allVars

(***************************************************************************)
(* Claims about what a tick reports.                                       *)
(***************************************************************************)

\* C28: the cron callback reports a skip only for a tick whose
\* withAdvisoryLock call did not acquire the lock; a tick that acquired the
\* lock and ran its batch to the end is not reported as skipped.
C28_SkipMeansNotAcquired ==
  TickReport(lastStep) = "skipped" => (lastStep.op = "acquire" /\ lastStep.value = "undefined")

(***************************************************************************)
(* Claims about re-entrancy of the lock.                                   *)
(***************************************************************************)

\* C29: two withAdvisoryLock calls of one instance never have their fn
\* running at the same time (a call started while the fn of an earlier call
\* of the instance is running does not acquire the lock), and once a call
\* that ran fn has released and no other call of its instance is inside
\* withAdvisoryLock, no session of the instance holds the lock.
C29_NonReentrant ==
  /\ \A c, d \in Calls :
       (c # d /\ InstOf(c) = InstOf(d)) => ~(pc[c] = "fn" /\ pc[d] \in {"fn", "finally"})
  /\ \A i \in Instances :
       (lastStep.op = "release" /\ \A c \in Calls : InstOf(c) = i => pc[c] = "idle")
         => \A k \in Conns : advLocks[<<i, k>>] = 0

(***************************************************************************)
(* Claims about the incremental watermark.                                 *)
(***************************************************************************)

\* C30: the watermark a routine reads is the latest completion time among the
\* success rows of its integration and data type, and none when there is no
\* such row; and a row that is an error row, or belongs to another data type
\* or another integration, leaves the watermark of a given integration and
\* data type as it was.
C30_WatermarkIsLastSuccess ==
  [][/\ \A id \in LogOwners, dt \in WatermarkTypes :
          RoutineReadsWatermark(id, dt) =>
            LET times == {r.completedAt : r \in {x \in wm.logs : /\ x.integrationId = id
                                                                 /\ x.dataType = dt
                                                                 /\ x.status = "success"}}
            IN  /\ times = {} => wm'.read.value = NoTime
                /\ times # {} => /\ wm'.read.value \in times
                                 /\ \A t \in times : t <= wm'.read.value
     /\ \A id, id2 \in LogOwners, dt, dt2 \in WatermarkTypes, status \in {"success", "error"} :
          (LogSyncRow(id2, dt2, status) /\ (status = "error" \/ id2 # id \/ dt2 # dt)) =>
            GetLastSyncTime(wm'.logs, id, dt) = GetLastSyncTime(wm.logs, id, dt)]_allVars

\* C30 witness: integration 1 has a success row for orders completed at 0,
\* a later error row for orders and a later success row for events, and the
\* orders routine, started after all of them, has read the watermark 0.
C30_Witness ==
  /\ wm.read = [id |-> 1, dataType |-> "orders", value |-> 0, at |-> 2]
  /\ [integrationId |-> 1, dataType |-> "orders", status |-> "success", completedAt |-> 0] \in wm.logs
  /\ [integrationId |-> 1, dataType |-> "orders", status |-> "error", completedAt |-> 1] \in wm.logs
  /\ [integrationId |-> 1, dataType |-> "events", status |-> "success", completedAt |-> 1] \in wm.logs

(***************************************************************************)
(* Claims about the OAuth callback.                                        *)
(***************************************************************************)

\* C31: the authorization URL returned for a state carries code_challenge
\* and code_challenge_method=S256 exactly when the provider mandates PKCE,
\* a verifier is generated and persisted exactly in that case, and the
\* verifier handed to exchangeCodeForTokens by a callback is the one
\* generated at initiation for that state, whose challenge is in that URL.
C31_PkceBinding ==
  /\ \A s \in DOMAIN pk.urls :
       LET url == pk.urls[s]
       IN  /\ (url.pkce.code_challenge # Undefined) <=> PkceRequired(url.provider)
           /\ (url.pkce.code_challenge_method = "S256") <=> PkceRequired(url.provider)
           /\ (pk.made[s] # Undefined) <=> PkceRequired(url.provider)
           /\ PkceRequired(url.provider) =>
                url.pkce.code_challenge = GenerateCodeChallenge(pk.made[s])
           /\ s \in DOMAIN pk.rows => JsonField(pk.rows[s], "codeVerifier") = pk.made[s]
  /\ pk.exchange.state # 0 =>
       /\ pk.exchange.codeVerifier = pk.made[pk.exchange.state]
       /\ PkceRequired(pk.urls[pk.exchange.state].provider) =>
            GenerateCodeChallenge(pk.exchange.codeVerifier) =
              pk.urls[pk.exchange.state].pkce.code_challenge

\* C31 witness: two Klaviyo flows with different verifiers and a Shopify
\* flow were initiated, and the callback of the second flow handed verifier
\* 2 to the exchange.
C31_Witness ==
  /\ pk.n = 3
  /\ pk.urls[1].provider = "klaviyo" /\ pk.made[1] = "1"
  /\ pk.urls[2].provider = "klaviyo" /\ pk.made[2] = "2"
  /\ pk.urls[3].provider = "shopify"
  /\ pk.exchange.state = 2
  /\ pk.exchange.codeVerifier = "2"
  /\ pk.urls[2].pkce.code_challenge_method = "S256"

\* C32: a callback that passed state validation and then fails (the token
\* exchange raises, or returns no accountId) changes no Integration row and
\* leaves its OAuth State row in place; an Integration row is written only
\* by a callback whose exchange returned an account, and a state row is
\* deleted only by a callback that has persisted its Integration.
C32_FailedCallbackWritesNothing ==
  [][/\ \A c \in Callers :
          (CallbackExchangeFails(c) \/ CallbackExchange(c, 0)) =>
            /\ integrations' = integrations
            /\ oauthStates' = oauthStates
     /\ integrations' # integrations =>
          \E c \in Callers : /\ cb[c].pc = "upsert"
                             /\ cb[c].accountId # 0
                             /\ cb'[c].pc = "cleanup"
     /\ \A s \in DOMAIN oauthStates :
          s \notin DOMAIN oauthStates' =>
            \E c \in Callers : /\ cb[c].pc = "cleanup"
                               /\ cb[c].state = s
                               /\ RowsWithKey(integrations, CbKey(cb[c])) # {}]_allVars

\* C32 witness: an exchange has answered without an account id, the
\* callback has ended, no Integration exists and the state row of the flow
\* is still there.
C32_Witness ==
  /\ nextToken = 1
  /\ integrations = <<>>
  /\ \A c \in Callers : cb[c].pc = "idle"
  /\ consumed = {}
  /\ DOMAIN oauthStates # {}
  /\ now = 0

\* C33: the Integration row a callback writes has the user and the provider
\* recorded in the OAuth State row of the state the callback presented.
C33_StateBindsProvider ==
  [][\A c \in Callers :
       CallbackUpsert(c) =>
         \A i \in RowsWithKey(integrations', CbKey(cb[c])) :
           /\ integrations'[i].userId = cb[c].userId
           /\ integrations'[i].provider = cb[c].stateProvider]_allVars

(***************************************************************************)
(* Claims about the status of an Integration while syncs run.              *)
(***************************************************************************)

\* C34: an Integration row whose deletedAt is set has status disconnected,
\* whatever syncIntegration calls were in progress when it was disconnected.
C34_SoftDeletedIsDisconnected ==
  \A id \in DOMAIN integrations :
    integrations[id].deletedAt # NoTime => integrations[id].status = "disconnected"

\* C35: while the sync() of a manual syncIntegration call is in progress
\* for an integration, no other syncIntegration call, scheduled or manual,
\* has a sync() in progress for the same integration.
C35_NoOverlappingSync ==
  \A id \in Ids :
    si[<<ManualRun, id>>].pc = "sync" =>
      \A o \in Origins \ {ManualRun} : si[<<o, id>>].pc # "sync"

(***************************************************************************)
(* Claims about the hourly cadence.                                        *)
(***************************************************************************)

\* C36: the tick's findMany selects the integration exactly when it is
\* connected, not soft-deleted and its lastSyncAt is null or more than one
\* hour before the query time; and an integration that stays connected and
\* was synced by the tick of one hour is synced again by the tick of the
\* next hour.
C36_HourlyCadence ==
  /\ cad.stage = "sync" =>
       /\ cad.row.status = "connected"
       /\ cad.row.deletedAt = NoTime
       /\ cad.row.lastSyncAt = NoTime \/ cad.row.lastSyncAt + SyncWindow < cad.queryAt
  /\ \A k \in 1..(Len(cad.hist) - 1) :
       cad.hist[k] = "synced" => cad.hist[k + 1] = "synced"

(***************************************************************************)
(* Claims about lastSyncAt and the status after a sync.                    *)
(***************************************************************************)

\* C37: a sync() invocation one of whose data-type routines has returned an
\* error result neither advances the Integration's lastSyncAt nor writes
\* the status connected.
C37_LastSyncAtMeansSuccess ==
  [][(\E n \in DOMAIN sync.results : sync.results[n].status = "error") =>
       /\ integrations'[SyncTarget].lastSyncAt = integrations[SyncTarget].lastSyncAt
       /\ "connected" \in sync'.wrote => "connected" \in sync.wrote]_allVars

\* C38: while an Integration's status is error or expired, no
\* syncIntegration call runs connector.sync() for it, and no step other than
\* a disconnect changes its status (no handleOAuthCallback runs in this
\* specification).
C38_ErrorStatusIsQuiescent ==
  [][\A id \in DOMAIN integrations :
       integrations[id].status \in {"error", "expired"} =>
         /\ integrations'[id].status \in {integrations[id].status, "disconnected"}
         /\ \A o \in Origins, outcome \in SyncRunOutcomes :
              ~CallSyncs(<<o, id>>, outcome)]_allVars

====
